---- MODULE Spec2Model ----
(***************************************************************************)
(* State-machine model of the TIP MDS EMR workflows: the appointment       *)
(* lifecycle (appointments/models.py, doctors/views.py, students/views.py, *)
(* appointments/admin.py), the update-request workflow (students/models.py,*)
(* doctors/views.py, students/admin.py) and notification / email dispatch  *)
(* (notifications/services.py, notifications/admin.py), certificates       *)
(* (templates_docs), the analytics queries (analytics/services.py) and the *)
(* role gate of the doctor portal (accounts/decorators.py).                *)
(*                                                                         *)
(* Every action is one request handler or admin action, taken atomically   *)
(* (one request at a time), except the creation of numbered rows and the   *)
(* review views of the doctor portal, which are also modelled step by step *)
(* for concurrent requests.  Rows are kept in sequences; the index of a    *)
(* row stands for its primary key.  Time is a counter of days.             *)
(***************************************************************************)
EXTENDS Integers, Sequences, FiniteSets, TLC

VARIABLES
    now,            \* timezone.now(), in days
    appointments,   \* rows of appointments.Appointment
    requests,       \* rows of students.RecordUpdateRequest
    profiles,       \* students.StudentProfile, keyed by the student user
    notifications,  \* rows of notifications.Notification
    emailLogs,      \* rows of notifications.EmailLog
    prefs,          \* notifications.NotificationPreference, keyed by user
    response,       \* what the last handler answered
    certificates,   \* rows of templates_docs.IssuedCertificate
    prescriptions,  \* rows of templates_docs.Prescription
    creators,       \* requests that are inside Model.save() of a new row
    records,        \* rows of students.MedicalRecord
    statistics,     \* rows of analytics.ConsultationStatistic
    morbidities,    \* the last call of get_top_morbidities and its result
    sessions        \* requests that have loaded a row and not yet saved it

vars == <<now, appointments, requests, profiles, notifications, emailLogs,
          prefs, response, certificates, prescriptions, creators, records,
          statistics, morbidities, sessions>>

----------------------------------------------------------------------------
(* Bounds of the model *)

MaxAppt == 2
MaxReq == 2
MaxNotif == 1
MaxLog == 4
MaxTime == 8
MaxReminders == 2
MaxCert == 2
MaxRx == 2
MaxProc == 2
MaxRec == 4
MaxStat == 2
MaxViewNotif == 2
DaysPerMonth == 30

(* Program constants *)

ExpiryDays == 7
DefaultMaxRetries == 3
DefaultExpiresInDays == 30
ReminderExpiresInDays == 2
DaysPerWeek == 7
Saturday == 5
Percent == 100
RoundScale == 100

NULL == -1
NoUser == "none"

Students == {"s1", "s2"}
Doctors == {"d1"}
Admins == {"a1"}
Staff == Doctors \cup Admins

MailOutcomes == {"sent", "transport_fail", "render_fail"}

\* The requests that may create rows concurrently, and one that is not
\* creating anything.
Procs == 1..MaxProc
Idle == [pc |-> "idle", kind |-> "none", number |-> NULL, student |-> NoUser]

\* No call of get_top_morbidities has been made; a request that has loaded
\* nothing.
NoCall == [called |-> FALSE]
NoSession == [pc |-> "idle"]

\* What random.choices can draw for the random part of a number.
NumberPool == 1..MaxProc

\* What a handler answers: the message it shows and, for an admin bulk
\* action, the count in that message.
Resp(message, count) == [message |-> message, count |-> count]

\* The ids 1..n of a table in the order the admin iterates a queryset.
RECURSIVE Ordered(_)
Ordered(S) ==
    IF S = {} THEN << >>
    ELSE LET m == CHOOSE x \in S : \A y \in S : y <= x
         IN <<m>> \o Ordered(S \ {m})

----------------------------------------------------------------------------
(* notifications/models.py, notifications/services.py *)

DefaultPreference ==
    [email_appointment_approved |-> TRUE,
     email_appointment_reminder |-> TRUE,
     email_request_status |-> TRUE,
     email_certificate_issued |-> TRUE,
     email_system_notifications |-> TRUE]

NoPreference == [exists |-> FALSE, flags |-> DefaultPreference]

\* NotificationPreference.objects.get_or_create(user=recipient)
get_or_create(p, user) ==
    IF p[user].exists THEN p
    ELSE [p EXCEPT ![user] = [exists |-> TRUE, flags |-> DefaultPreference]]

\* Notification.mark_as_read()
Notification_mark_as_read(n, t) ==
    IF ~n.is_read THEN [n EXCEPT !.is_read = TRUE, !.read_at = t] ELSE n

\* Notification.mark_as_unread()
Notification_mark_as_unread(n) ==
    [n EXCEPT !.is_read = FALSE, !.read_at = NULL]

\* mark_expired_notifications(): the table afterwards and the returned count
mark_expired_notifications(ns, t) ==
    LET expired == {i \in 1..Len(ns) : ns[i].expires_at < t /\ ~ns[i].is_read}
    IN  [notifications |->
            [i \in 1..Len(ns) |->
                IF i \in expired
                THEN [ns[i] EXCEPT !.is_read = TRUE, !.read_at = t]
                ELSE ns[i]],
         ret |-> Cardinality(expired)]

can_retry(log) ==
    log.status = "failed" /\ log.retry_count < log.max_retries

NewEmailLog(n) ==
    [notification |-> n, status |-> "pending", error_message |-> FALSE,
     retry_count |-> 0, max_retries |-> DefaultMaxRetries]

\* A variant of the except branch that does not count the attempt.
MarkFailed_uncounted(log) ==
    [log EXCEPT !.status = "failed", !.error_message = TRUE]

\* The except branch of send_notification_email.
MarkFailed(log) ==
    [log EXCEPT !.status = "failed", !.error_message = TRUE,
                !.retry_count = @ + 1]

\* send_notification_email(notification): the notification table, the log
\* table and the returned boolean.  outcome is what rendering and the mail
\* transport do.
send_notification_email(ns, logs, n, outcome) ==
    IF outcome = "render_fail"
    THEN [notifications |-> ns, emailLogs |-> logs, ret |-> FALSE]
    ELSE IF outcome = "sent"
    THEN [notifications |-> [ns EXCEPT ![n].email_sent = TRUE],
          emailLogs |-> Append(logs, [NewEmailLog(n) EXCEPT !.status = "sent"]),
          ret |-> TRUE]
    ELSE [notifications |-> ns,
          emailLogs |-> Append(logs, MarkFailed(NewEmailLog(n))),
          ret |-> FALSE]

\* A variant of the gating that ignores the preferences.
GatedSendEmail_ungated(flags, ntype, send_email) ==
    send_email

\* The preference flag that gates the email of a notification type.
GatedSendEmail(flags, ntype, send_email) ==
    IF ~send_email THEN FALSE
    ELSE IF ntype = "appointment_approved" THEN flags.email_appointment_approved
    ELSE IF ntype = "appointment_reminder" THEN flags.email_appointment_reminder
    ELSE IF ntype \in {"request_approved", "request_declined"}
         THEN flags.email_request_status
    ELSE IF ntype = "certificate_issued" THEN flags.email_certificate_issued
    ELSE IF ntype = "system" THEN flags.email_system_notifications
    ELSE send_email

\* create_notification(...): preferences, notifications and logs afterwards.
create_notification(p, ns, logs, recipient, ntype, priority, send_email, rtype, rid, expires_in_days, outcome) ==
    LET p2 == get_or_create(p, recipient)
        se == GatedSendEmail(p2[recipient].flags, ntype, send_email)
        ns2 == Append(ns, [recipient |-> recipient,
                           notification_type |-> ntype,
                           priority |-> priority,
                           send_email |-> se,
                           email_sent |-> FALSE,
                           related_object_type |-> rtype,
                           related_object_id |-> rid,
                           is_read |-> FALSE,
                           read_at |-> NULL,
                           expires_at |-> now + expires_in_days])
        sent == send_notification_email(ns2, logs, Len(ns2), outcome)
    IN  IF se
        THEN [prefs |-> p2, notifications |-> sent.notifications,
              emailLogs |-> sent.emailLogs]
        ELSE [prefs |-> p2, notifications |-> ns2, emailLogs |-> logs]

notify_appointment_approved(p, ns, logs, a, id, outcome) ==
    create_notification(p, ns, logs, a.student, "appointment_approved",
                        "high", TRUE, "Appointment", id,
                        DefaultExpiresInDays, outcome)

\* Room for one more notification and one more log.
NotifRoom == Len(notifications) < MaxNotif /\ Len(emailLogs) < MaxLog

----------------------------------------------------------------------------
(* appointments/models.py *)

NewAppointment(student, preferred_date, ticket_number) ==
    [student |-> student, status |-> "pending",
     ticket_number |-> ticket_number,
     preferred_date |-> preferred_date, reminder_sent |-> FALSE,
     approved_by |-> NoUser, approved_at |-> NULL,
     completed_at |-> NULL,
     cancelled_at |-> NULL, cancelled_by |-> NoUser,
     cancellation_reason |-> "null"]

Appointment_approve(a, approved_by_user, t) ==
    [a EXCEPT !.status = "approved", !.approved_by = approved_by_user,
              !.approved_at = t]

Appointment_complete(a, t) ==
    [a EXCEPT !.status = "completed", !.completed_at = t]

\* A variant of cancel() that does not record who cancelled.
Appointment_cancel_anonymous(a, reason, cancelled_by, t) ==
    [a EXCEPT !.status = "cancelled", !.cancelled_at = t,
              !.cancellation_reason = reason]

Appointment_cancel(a, reason, cancelled_by, t) ==
    [a EXCEPT !.status = "cancelled", !.cancelled_at = t,
              !.cancellation_reason = reason,
              !.cancelled_by = IF cancelled_by # NoUser THEN cancelled_by ELSE @]

Appointment_mark_no_show(a) ==
    [a EXCEPT !.status = "no_show"]

\* notify_appointment_cancelled(appointment): Notification.objects.create is
\* given user= and related_appointment=, which are no fields of Notification,
\* so the call raises before any row is written or any mail is sent.
notify_appointment_cancelled(ns, a) ==
    [raised |-> TRUE, notifications |-> ns]

----------------------------------------------------------------------------
(* Appointment handlers.  A handler is its POST request; a GET only renders *)
(* a form and writes nothing.                                               *)

ApptIds == 1..MaxAppt
Exists(table, id) == id \in 1..Len(table)

\* get_object_or_404 finds no row
NotFound ==
    /\ response' = Resp("not_found", 0)
    /\ UNCHANGED <<now, appointments, requests, profiles, notifications,
                   emailLogs, prefs,
                   certificates, prescriptions, creators,
                   records, statistics, morbidities, sessions>>

\* messages.error(request, message) and nothing else
Rejected(message) ==
    /\ response' = Resp(message, 0)
    /\ UNCHANGED <<now, appointments, requests, profiles, notifications,
                   emailLogs, prefs,
                   certificates, prescriptions, creators,
                   records, statistics, morbidities, sessions>>

\* The numbers stored in a column of a table.
Numbers(table, column) == {table[i][column] : i \in 1..Len(table)}

\* generate_ticket_number / generate_certificate_number /
\* generate_prescription_number when the loop ends at this draw: the draw
\* is returned if no stored row has it, and no number is returned (NULL,
\* the loop goes on) if one has.
generate_number(persisted, draw) ==
    IF draw \in persisted THEN NULL ELSE draw

\* The day of the week of a date, day 0 being a Monday.
Weekday(date) == date % DaysPerWeek

\* A variant of clean_preferred_date without the weekend check.
BookingFormValid_any_day(preferred_date) == ~(preferred_date < now)

\* AppointmentBookingForm.clean_preferred_date
BookingFormValid(preferred_date) ==
    ~(preferred_date < now) /\ ~(Weekday(preferred_date) >= Saturday)

\* students/views.py student_appointments (POST of a booking form)
student_appointments(student, preferred_date, ticket) ==
    IF BookingFormValid(preferred_date)
    THEN /\ Len(appointments) < MaxAppt
         /\ ticket = generate_number(Numbers(appointments, "ticket_number"),
                                     ticket)
         /\ appointments' = Append(appointments,
                                   NewAppointment(student, preferred_date,
                                                  ticket))
         /\ response' = Resp("Appointment request submitted!", 0)
         /\ UNCHANGED <<now, requests, profiles, notifications, emailLogs,
                        prefs,
                   certificates, prescriptions, creators,
                   records, statistics, morbidities, sessions>>
    ELSE Rejected("Please correct the errors below.")

\* AppointmentApprovalForm.clean_actual_datetime
ApprovalFormValid(actual_datetime) ==
    actual_datetime = NULL \/ ~(actual_datetime < now)

\* doctors/views.py approve_appointment
approve_appointment(id, user, actual_datetime, outcome) ==
    IF ~Exists(appointments, id) THEN NotFound
    ELSE IF ApprovalFormValid(actual_datetime)
    THEN /\ NotifRoom
         /\ LET a == Appointment_approve(appointments[id], user, now)
                n == notify_appointment_approved(prefs, notifications,
                                                 emailLogs, a, id, outcome)
            IN  /\ appointments' = [appointments EXCEPT ![id] = a]
                /\ prefs' = n.prefs
                /\ notifications' = n.notifications
                /\ emailLogs' = n.emailLogs
         /\ response' = Resp("Appointment approved successfully.", 0)
         /\ UNCHANGED <<now, requests, profiles,
                   certificates, prescriptions, creators,
                   records, statistics, morbidities, sessions>>
    ELSE Rejected("Scheduled time must be in the future.")

\* doctors/views.py complete_appointment
complete_appointment(id) ==
    IF ~Exists(appointments, id) THEN NotFound
    ELSE IF appointments[id].status # "approved"
    THEN Rejected("Only approved appointments can be marked as completed.")
    ELSE /\ appointments' = [appointments EXCEPT
                ![id] = [@ EXCEPT !.status = "completed",
                                  !.completed_at = now]]
         /\ response' = Resp("Appointment marked as completed.", 0)
         /\ UNCHANGED <<now, requests, profiles, notifications, emailLogs,
                        prefs,
                   certificates, prescriptions, creators,
                   records, statistics, morbidities, sessions>>

\* doctors/views.py cancel_appointment
doctors_cancel_appointment(id, user, reason) ==
    IF ~Exists(appointments, id) THEN NotFound
    ELSE IF appointments[id].status \notin {"pending", "approved"}
    THEN Rejected("This appointment cannot be cancelled.")
    ELSE /\ LET a == Appointment_cancel(appointments[id], reason, user, now)
            IN  /\ appointments' = [appointments EXCEPT ![id] = a]
                /\ notifications' =
                       notify_appointment_cancelled(notifications, a).notifications
         /\ response' = Resp("Appointment has been cancelled and student has been notified.", 0)
         /\ UNCHANGED <<now, requests, profiles, emailLogs, prefs,
                   certificates, prescriptions, creators,
                   records, statistics, morbidities, sessions>>

\* A variant of the lookup that forgets the student filter.
OwnAppointment_any_student(id, student) == Exists(appointments, id)

\* get_object_or_404(Appointment, id=appointment_id, student=student_profile)
\* finds a row
OwnAppointment(id, student) ==
    Exists(appointments, id) /\ appointments[id].student = student

\* students/views.py cancel_appointment
students_cancel_appointment(id, student, reason) ==
    IF ~OwnAppointment(id, student)
    THEN NotFound
    ELSE IF appointments[id].status \in {"pending", "approved"}
    THEN /\ appointments' = [appointments EXCEPT
                ![id] = Appointment_cancel(@, reason, NoUser, now)]
         /\ response' = Resp("Appointment cancelled successfully.", 0)
         /\ UNCHANGED <<now, requests, profiles, notifications, emailLogs,
                        prefs,
                   certificates, prescriptions, creators,
                   records, statistics, morbidities, sessions>>
    ELSE Rejected("This appointment cannot be cancelled.")

\* queryset.filter(...): the selected rows whose ids are in kept.
Filtered(selected, kept) == selected \cap kept

\* One pass of an admin bulk action over the filtered rows: each is replaced
\* by its entry in changed.
BulkAppointments(rows, changed) ==
    [i \in 1..Len(appointments) |->
        IF i \in rows THEN changed[i] ELSE appointments[i]]

IsPending(a) == a.status = "pending"
IsApproved(a) == a.status = "approved"
\* A filter that lets closed appointments through.
IsCancellableOrCompleted(a) ==
    a.status \in {"pending", "approved", "completed"}

IsCancellable(a) == a.status \in {"pending", "approved"}

\* appointments/admin.py AppointmentAdmin.approve_appointments
approve_appointments(selected, user) ==
    LET rows == Filtered(selected, {i \in 1..Len(appointments) :
                                       IsPending(appointments[i])})
        changed == [i \in 1..Len(appointments) |->
                       Appointment_approve(appointments[i], user, now)]
    IN  /\ appointments' = BulkAppointments(rows, changed)
        /\ response' = Resp("appointment(s) approved successfully.",
                            Cardinality(rows))
        /\ UNCHANGED <<now, requests, profiles, notifications, emailLogs,
                       prefs,
                   certificates, prescriptions, creators,
                   records, statistics, morbidities, sessions>>

\* appointments/admin.py AppointmentAdmin.complete_appointments
complete_appointments(selected) ==
    LET rows == Filtered(selected, {i \in 1..Len(appointments) :
                                       IsApproved(appointments[i])})
        changed == [i \in 1..Len(appointments) |->
                       Appointment_complete(appointments[i], now)]
    IN  /\ appointments' = BulkAppointments(rows, changed)
        /\ response' = Resp("appointment(s) marked as completed.",
                            Cardinality(rows))
        /\ UNCHANGED <<now, requests, profiles, notifications, emailLogs,
                       prefs,
                   certificates, prescriptions, creators,
                   records, statistics, morbidities, sessions>>

\* appointments/admin.py AppointmentAdmin.cancel_appointments
cancel_appointments(selected) ==
    LET rows == Filtered(selected, {i \in 1..Len(appointments) :
                                       IsCancellable(appointments[i])})
        changed == [i \in 1..Len(appointments) |->
                       Appointment_cancel(appointments[i],
                                          "Cancelled by admin", NoUser, now)]
    IN  /\ appointments' = BulkAppointments(rows, changed)
        /\ response' = Resp("appointment(s) cancelled.", Cardinality(rows))
        /\ UNCHANGED <<now, requests, profiles, notifications, emailLogs,
                       prefs,
                   certificates, prescriptions, creators,
                   records, statistics, morbidities, sessions>>

\* Appointment.mark_no_show(), called on a stored appointment
mark_no_show(id) ==
    /\ Exists(appointments, id)
    /\ appointments' = [appointments EXCEPT ![id] = Appointment_mark_no_show(@)]
    /\ response' = Resp("", 0)
    /\ UNCHANGED <<now, requests, profiles, notifications, emailLogs, prefs,
                   certificates, prescriptions, creators,
                   records, statistics, morbidities, sessions>>

----------------------------------------------------------------------------
(* students/models.py RecordUpdateRequest *)

\* RecordUpdateRequestForm.clean and RecordUpdateRequest.save on creation
NewRequest(student, field_name, new_value, profile, t) ==
    [student |-> student, field_name |-> field_name,
     old_value |-> profile[field_name], new_value |-> new_value,
     status |-> "pending",
     reviewed_by |-> NoUser, reviewed_at |-> NULL, review_notes |-> "null",
     created_at |-> t, expiry_date |-> t + ExpiryDays]

\* Variants of is_expired() that the claims about expiry must tell apart
\* from it: one forgets the status, one counts the deadline itself as late.
is_expired_any_status(req, t) ==
    t > req.expiry_date

is_expired_at_deadline(req, t) ==
    t >= req.expiry_date /\ req.status = "pending"

is_expired(req, t) ==
    t > req.expiry_date /\ req.status = "pending"

\* A variant of check_and_mark_expired() that expires every pending row.
check_and_mark_expired_early(req, t) ==
    IF req.status = "pending"
    THEN [request |-> [req EXCEPT !.status = "expired"], ret |-> TRUE]
    ELSE [request |-> req, ret |-> FALSE]

\* check_and_mark_expired(): the row afterwards and the returned boolean
check_and_mark_expired(req, t) ==
    IF is_expired(req, t)
    THEN [request |-> [req EXCEPT !.status = "expired"], ret |-> TRUE]
    ELSE [request |-> req, ret |-> FALSE]

\* A variant of approve() that writes new_value to every field.
RecordUpdateRequest_approve_all_fields(req, profile, reviewed_by_user, apply_changes, t) ==
    [request |-> [req EXCEPT !.status = "approved",
                             !.reviewed_by = reviewed_by_user,
                             !.reviewed_at = t],
     profile |-> IF apply_changes
                 THEN [f \in DOMAIN profile |-> req.new_value]
                 ELSE profile]

\* A variant of approve() that applies the change whatever apply_changes is.
RecordUpdateRequest_approve_always_applies(req, profile, reviewed_by_user, apply_changes, t) ==
    [request |-> [req EXCEPT !.status = "approved",
                             !.reviewed_by = reviewed_by_user,
                             !.reviewed_at = t],
     profile |-> [profile EXCEPT ![req.field_name] = req.new_value]]

\* approve(reviewed_by_user, apply_changes): the row and the profile of the
\* request's student afterwards
RecordUpdateRequest_approve(req, profile, reviewed_by_user, apply_changes, t) ==
    [request |-> [req EXCEPT !.status = "approved",
                             !.reviewed_by = reviewed_by_user,
                             !.reviewed_at = t],
     profile |-> IF apply_changes
                 THEN [profile EXCEPT ![req.field_name] = req.new_value]
                 ELSE profile]

RecordUpdateRequest_decline(req, reviewed_by_user, notes, t) ==
    [req EXCEPT !.status = "declined", !.reviewed_by = reviewed_by_user,
                !.reviewed_at = t, !.review_notes = notes]

notify_request_approved(p, ns, logs, req, id, outcome) ==
    create_notification(p, ns, logs, req.student, "request_approved",
                        "normal", TRUE, "RecordUpdateRequest", id,
                        DefaultExpiresInDays, outcome)

notify_request_declined(p, ns, logs, req, id, outcome) ==
    create_notification(p, ns, logs, req.student, "request_declined",
                        "normal", TRUE, "RecordUpdateRequest", id,
                        DefaultExpiresInDays, outcome)

----------------------------------------------------------------------------
(* notifications/services.py: reminders *)

notify_appointment_reminder(p, ns, logs, a, id, outcome) ==
    create_notification(p, ns, logs, a.student, "appointment_reminder",
                        "high", TRUE, "Appointment", id,
                        ReminderExpiresInDays, outcome)

\* A variant of the queryset that forgets the reminder_sent filter.
ReminderQueryset_any(appts, t) ==
    {i \in 1..Len(appts) : /\ appts[i].status = "approved"
                           /\ appts[i].preferred_date = t + 1}

\* The queryset of send_appointment_reminders: approved, dated tomorrow, not
\* yet reminded.
ReminderQueryset(appts, t) ==
    {i \in 1..Len(appts) : /\ appts[i].status = "approved"
                           /\ appts[i].preferred_date = t + 1
                           /\ ~appts[i].reminder_sent}

\* Whether the loop reminds this student: a stored preference record with
\* the reminder flag on.
WantsReminder(p, student) ==
    p[student].exists /\ p[student].flags.email_appointment_reminder

\* The loop of send_appointment_reminders over the queryset, in its order;
\* outcome[i] is what rendering and the transport do for appointment i.
RECURSIVE reminders_loop(_, _, _, _, _, _)
reminders_loop(order, appts, p, ns, logs, outcome) ==
    IF order = << >>
    THEN [appointments |-> appts, prefs |-> p, notifications |-> ns,
          emailLogs |-> logs, ret |-> 0]
    ELSE LET id == Head(order)
         IN  IF WantsReminder(p, appts[id].student)
             THEN LET n == notify_appointment_reminder(p, ns, logs, appts[id],
                                                       id, outcome[id])
                      rest == reminders_loop(Tail(order),
                                 [appts EXCEPT ![id].reminder_sent = TRUE],
                                 n.prefs, n.notifications, n.emailLogs, outcome)
                  IN  [rest EXCEPT !.ret = @ + 1]
             ELSE reminders_loop(Tail(order), appts, p, ns, logs, outcome)

\* send_appointment_reminders(): the tables afterwards and the returned count
send_appointment_reminders(appts, p, ns, logs, t, outcome) ==
    reminders_loop(Ordered(ReminderQueryset(appts, t)), appts, p, ns, logs,
                   outcome)

----------------------------------------------------------------------------
(* Update-request handlers *)

ReqIds == 1..MaxReq

\* students/views.py request_update (POST of a valid form)
request_update(student, field_name, new_value) ==
    /\ Len(requests) < MaxReq
    /\ requests' = Append(requests,
            NewRequest(student, field_name, new_value, profiles[student], now))
    /\ response' = Resp("Update request submitted successfully.", 0)
    /\ UNCHANGED <<now, appointments, profiles, notifications, emailLogs,
                   prefs,
                   certificates, prescriptions, creators,
                   records, statistics, morbidities, sessions>>

\* doctors/views.py approve_update_request
approve_update_request(id, user, outcome) ==
    IF ~Exists(requests, id) THEN NotFound
    ELSE IF requests[id].status = "pending"
    THEN /\ NotifRoom
         /\ LET req == requests[id]
                done == RecordUpdateRequest_approve(req, profiles[req.student],
                                                    user, TRUE, now)
                n == notify_request_approved(prefs, notifications, emailLogs,
                                             done.request, id, outcome)
            IN  /\ requests' = [requests EXCEPT ![id] = done.request]
                /\ profiles' = [profiles EXCEPT ![req.student] = done.profile]
                /\ prefs' = n.prefs
                /\ notifications' = n.notifications
                /\ emailLogs' = n.emailLogs
         /\ response' = Resp("Update request approved and applied.", 0)
         /\ UNCHANGED <<now, appointments,
                   certificates, prescriptions, creators,
                   records, statistics, morbidities, sessions>>
    ELSE Rejected("This request has already been processed.")

\* RecordUpdateRequest.approve(reviewed_by_user, apply_changes), called on a
\* stored request
approve(id, user, apply_changes) ==
    /\ Exists(requests, id)
    /\ LET req == requests[id]
           done == RecordUpdateRequest_approve(req, profiles[req.student],
                                               user, apply_changes, now)
       IN  /\ requests' = [requests EXCEPT ![id] = done.request]
           /\ profiles' = [profiles EXCEPT ![req.student] = done.profile]
    /\ response' = Resp("", 0)
    /\ UNCHANGED <<now, appointments, notifications, emailLogs, prefs,
                   certificates, prescriptions, creators, records,
                   statistics, morbidities, sessions>>

\* doctors/views.py decline_update_request
decline_update_request(id, user, notes, outcome) ==
    IF ~Exists(requests, id) THEN NotFound
    ELSE IF requests[id].status = "pending"
    THEN /\ NotifRoom
         /\ LET done == RecordUpdateRequest_decline(requests[id], user, notes,
                                                    now)
                n == notify_request_declined(prefs, notifications, emailLogs,
                                             done, id, outcome)
            IN  /\ requests' = [requests EXCEPT ![id] = done]
                /\ prefs' = n.prefs
                /\ notifications' = n.notifications
                /\ emailLogs' = n.emailLogs
         /\ response' = Resp("Update request declined.", 0)
         /\ UNCHANGED <<now, appointments, profiles,
                   certificates, prescriptions, creators,
                   records, statistics, morbidities, sessions>>
    ELSE Rejected("This request has already been processed.")

\* The loop of RecordUpdateRequestAdmin.approve_requests over the selected
\* rows, in queryset order; each row is as the queryset read it, each
\* profile as the rows before it left it.
RECURSIVE approve_requests_loop(_, _, _, _)
approve_requests_loop(order, reqs, profs, user) ==
    IF order = << >> THEN [requests |-> reqs, profiles |-> profs, count |-> 0]
    ELSE LET id == Head(order)
             req == requests[id]
         IN  IF req.status = "pending"
             THEN LET done == RecordUpdateRequest_approve(
                                  req, profs[req.student], user, TRUE, now)
                      rest == approve_requests_loop(
                                  Tail(order),
                                  [reqs EXCEPT ![id] = done.request],
                                  [profs EXCEPT ![req.student] = done.profile],
                                  user)
                  IN  [rest EXCEPT !.count = @ + 1]
             ELSE approve_requests_loop(Tail(order), reqs, profs, user)

\* students/admin.py RecordUpdateRequestAdmin.approve_requests
approve_requests(selected, user) ==
    /\ LET done == approve_requests_loop(Ordered(selected), requests, profiles,
                                         user)
       IN  /\ requests' = done.requests
           /\ profiles' = done.profiles
           /\ response' = Resp("request(s) approved and applied.", done.count)
    /\ UNCHANGED <<now, appointments, notifications, emailLogs, prefs,
                   certificates, prescriptions, creators,
                   records, statistics, morbidities, sessions>>

\* students/admin.py RecordUpdateRequestAdmin.decline_requests
decline_requests(selected, user) ==
    /\ requests' = [i \in 1..Len(requests) |->
            IF i \in selected /\ requests[i].status = "pending"
            THEN RecordUpdateRequest_decline(requests[i], user,
                                             "Declined by admin", now)
            ELSE requests[i]]
    /\ response' = Resp("request(s) declined.",
            Cardinality({i \in selected : requests[i].status = "pending"}))
    /\ UNCHANGED <<now, appointments, profiles, notifications, emailLogs,
                   prefs,
                   certificates, prescriptions, creators,
                   records, statistics, morbidities, sessions>>

\* students/admin.py RecordUpdateRequestAdmin.mark_expired
mark_expired(selected) ==
    /\ requests' = [i \in 1..Len(requests) |->
            IF i \in selected
            THEN check_and_mark_expired(requests[i], now).request
            ELSE requests[i]]
    /\ response' = Resp("request(s) marked as expired.",
            Cardinality({i \in selected :
                            check_and_mark_expired(requests[i], now).ret}))
    /\ UNCHANGED <<now, appointments, profiles, notifications, emailLogs,
                   prefs,
                   certificates, prescriptions, creators,
                   records, statistics, morbidities, sessions>>

----------------------------------------------------------------------------
(* Notification handlers *)

\* notifications/views.py notification_preferences (POST)
notification_preferences(user, flags) ==
    /\ prefs' = [get_or_create(prefs, user) EXCEPT ![user].flags = flags]
    /\ response' = Resp("Notification preferences updated successfully.", 0)
    /\ UNCHANGED <<now, appointments, requests, profiles, notifications,
                   emailLogs,
                   certificates, prescriptions, creators,
                   records, statistics, morbidities, sessions>>

\* notifications/views.py mark_notification_read
mark_notification_read(id, user) ==
    IF ~Exists(notifications, id) \/ notifications[id].recipient # user
    THEN NotFound
    ELSE /\ notifications' = [notifications EXCEPT
                ![id] = Notification_mark_as_read(@, now)]
         /\ response' = Resp("success", 0)
         /\ UNCHANGED <<now, appointments, requests, profiles, emailLogs,
                        prefs,
                   certificates, prescriptions, creators,
                   records, statistics, morbidities, sessions>>

\* notifications/views.py mark_all_read: one UPDATE of is_read
mark_all_read(user) ==
    /\ notifications' = [i \in 1..Len(notifications) |->
            IF notifications[i].recipient = user /\ ~notifications[i].is_read
            THEN [notifications[i] EXCEPT !.is_read = TRUE]
            ELSE notifications[i]]
    /\ response' = Resp("success", 0)
    /\ UNCHANGED <<now, appointments, requests, profiles, emailLogs, prefs,
                   certificates, prescriptions, creators,
                   records, statistics, morbidities, sessions>>

\* notifications/admin.py NotificationAdmin.mark_as_read
mark_as_read(selected) ==
    /\ notifications' = [i \in 1..Len(notifications) |->
            IF i \in selected
            THEN Notification_mark_as_read(notifications[i], now)
            ELSE notifications[i]]
    /\ response' = Resp("notification(s) marked as read.",
                        Cardinality(selected))
    /\ UNCHANGED <<now, appointments, requests, profiles, emailLogs, prefs,
                   certificates, prescriptions, creators,
                   records, statistics, morbidities, sessions>>

\* notifications/admin.py NotificationAdmin.mark_as_unread
mark_as_unread(selected) ==
    /\ notifications' = [i \in 1..Len(notifications) |->
            IF i \in selected
            THEN Notification_mark_as_unread(notifications[i])
            ELSE notifications[i]]
    /\ response' = Resp("notification(s) marked as unread.",
                        Cardinality(selected))
    /\ UNCHANGED <<now, appointments, requests, profiles, emailLogs, prefs,
                   certificates, prescriptions, creators,
                   records, statistics, morbidities, sessions>>

\* management command send_reminders: the reminders, then the sweep of the
\* expired notifications; it prints both counts.
send_reminders(outcome) ==
    LET r == send_appointment_reminders(appointments, prefs, notifications,
                                        emailLogs, now, outcome)
        e == mark_expired_notifications(r.notifications, now)
    IN  /\ Len(r.notifications) <= MaxReminders
        /\ Len(r.emailLogs) <= MaxLog
        /\ appointments' = r.appointments
        /\ prefs' = r.prefs
        /\ notifications' = e.notifications
        /\ emailLogs' = r.emailLogs
        /\ response' = [message |-> "Reminder task completed!",
                        count |-> r.ret, expired_count |-> e.ret]
        /\ UNCHANGED <<now, requests, profiles,
                   certificates, prescriptions, creators,
                   records, statistics, morbidities, sessions>>

\* The loop of EmailLogAdmin.retry_failed_emails over the selected logs, in
\* queryset order; outcome[i] is what rendering and the transport do for
\* the retry of log i.
RECURSIVE retry_loop(_, _, _, _)
retry_loop(order, ns, logs, outcome) ==
    IF order = << >> THEN [notifications |-> ns, emailLogs |-> logs, count |-> 0]
    ELSE LET i == Head(order)
         IN  IF can_retry(emailLogs[i]) /\ emailLogs[i].notification # NULL
             THEN LET sent == send_notification_email(
                                  ns, logs, emailLogs[i].notification, outcome[i])
                      rest == retry_loop(Tail(order), sent.notifications,
                                         sent.emailLogs, outcome)
                  IN  [rest EXCEPT !.count = @ + (IF sent.ret THEN 1 ELSE 0)]
             ELSE retry_loop(Tail(order), ns, logs, outcome)

\* notifications/admin.py EmailLogAdmin.retry_failed_emails
retry_failed_emails(selected, outcome) ==
    /\ Len(emailLogs)
         + Cardinality({i \in selected : can_retry(emailLogs[i])}) <= MaxLog
    /\ LET done == retry_loop(Ordered(selected), notifications, emailLogs,
                              outcome)
       IN  /\ notifications' = done.notifications
           /\ emailLogs' = done.emailLogs
           /\ response' = Resp("email(s) retried successfully.", done.count)
    /\ UNCHANGED <<now, appointments, requests, profiles, prefs,
                   certificates, prescriptions, creators,
                   records, statistics, morbidities, sessions>>

\* The days at which the clock is read: day 0, then the day of each multiple
\* of the expiry period and the day after it.
TimePoints == {t \in 0..MaxTime : t = 0 \/ (t >= ExpiryDays /\ t % ExpiryDays \in {0, 1})}

\* The clock moves on.
Tick ==
    /\ \E t \in TimePoints : t > now /\ now' = t
    /\ response' = Resp("", 0)
    /\ UNCHANGED <<appointments, requests, profiles, notifications, emailLogs,
                   prefs,
                   certificates, prescriptions, creators,
                   records, statistics, morbidities, sessions>>

----------------------------------------------------------------------------
(* templates_docs/models.py, templates_docs/admin.py, doctors/views.py:     *)
(* certificates and prescriptions                                           *)

NewCertificate(student, valid_until, certificate_number) ==
    [student |-> student, certificate_number |-> certificate_number,
     status |-> "active", valid_until |-> valid_until,
     revoked_at |-> NULL, revocation_reason |-> "null"]

NewPrescription(student, prescription_number) ==
    [student |-> student, prescription_number |-> prescription_number]

\* A variant of revoke() that reinstates a revoked certificate.
IssuedCertificate_revoke_toggle(c, reason, t) ==
    IF c.status = "revoked"
    THEN [c EXCEPT !.status = "active"]
    ELSE [c EXCEPT !.status = "revoked", !.revoked_at = t,
                   !.revocation_reason = reason]

\* IssuedCertificate.revoke(reason)
IssuedCertificate_revoke(c, reason, t) ==
    [c EXCEPT !.status = "revoked", !.revoked_at = t,
              !.revocation_reason = reason]

\* IssuedCertificate.check_expiry(): the row afterwards and the returned
\* boolean
IssuedCertificate_check_expiry(c, t) ==
    IF c.valid_until # NULL /\ t > c.valid_until /\ c.status = "active"
    THEN [certificate |-> [c EXCEPT !.status = "expired"], ret |-> TRUE]
    ELSE [certificate |-> c, ret |-> FALSE]

notify_certificate_issued(p, ns, logs, c, id, outcome) ==
    create_notification(p, ns, logs, c.student, "certificate_issued",
                        "high", TRUE, "IssuedCertificate", id,
                        DefaultExpiresInDays, outcome)

\* doctors/views.py generate_certificate (POST of a valid form), the request
\* handled alone; number is what generate_certificate_number returns.
generate_certificate(student, valid_until, number, outcome) ==
    /\ Len(certificates) < MaxCert
    /\ Len(emailLogs) < MaxLog
    /\ number = generate_number(Numbers(certificates, "certificate_number"),
                                number)
    /\ LET c == NewCertificate(student, valid_until, number)
           n == notify_certificate_issued(prefs, notifications, emailLogs, c,
                                          Len(certificates) + 1, outcome)
       IN  /\ certificates' = Append(certificates, c)
           /\ prefs' = n.prefs
           /\ notifications' = n.notifications
           /\ emailLogs' = n.emailLogs
    /\ response' = Resp("Certificate generated successfully!", 0)
    /\ UNCHANGED <<now, appointments, requests, profiles, prescriptions,
                   creators,
                   records, statistics, morbidities, sessions>>

\* doctors/views.py generate_prescription (POST), the request handled alone
generate_prescription(student, number) ==
    /\ Len(prescriptions) < MaxRx
    /\ number = generate_number(Numbers(prescriptions, "prescription_number"),
                                number)
    /\ prescriptions' = Append(prescriptions, NewPrescription(student, number))
    /\ response' = Resp("E-Prescription generated successfully!", 0)
    /\ UNCHANGED <<now, appointments, requests, profiles, notifications,
                   emailLogs, prefs, certificates, creators,
                   records, statistics, morbidities, sessions>>

\* templates_docs/admin.py IssuedCertificateAdmin.revoke_certificates
revoke_certificates(selected) ==
    LET rows == {i \in selected : certificates[i].status = "active"}
    IN  /\ certificates' = [i \in 1..Len(certificates) |->
               IF i \in rows
               THEN IssuedCertificate_revoke(certificates[i],
                                             "Revoked by admin", now)
               ELSE certificates[i]]
        /\ response' = Resp("certificate(s) revoked.", Cardinality(rows))
        /\ UNCHANGED <<now, appointments, requests, profiles, notifications,
                       emailLogs, prefs, prescriptions, creators,
                   records, statistics, morbidities, sessions>>

\* templates_docs/admin.py IssuedCertificateAdmin.check_expiry
check_expiry(selected) ==
    /\ certificates' = [i \in 1..Len(certificates) |->
           IF i \in selected
           THEN IssuedCertificate_check_expiry(certificates[i], now).certificate
           ELSE certificates[i]]
    /\ response' = Resp("certificate(s) marked as expired.",
           Cardinality({i \in selected :
               IssuedCertificate_check_expiry(certificates[i], now).ret}))
    /\ UNCHANGED <<now, appointments, requests, profiles, notifications,
                   emailLogs, prefs, prescriptions, creators,
                   records, statistics, morbidities, sessions>>

\* IssuedCertificate.revoke(reason), called on a stored certificate
revoke(id, reason) ==
    /\ Exists(certificates, id)
    /\ certificates' = [certificates EXCEPT
           ![id] = IssuedCertificate_revoke(@, reason, now)]
    /\ response' = Resp("", 0)
    /\ UNCHANGED <<now, appointments, requests, profiles, notifications,
                   emailLogs, prefs, prescriptions, creators,
                   records, statistics, morbidities, sessions>>

----------------------------------------------------------------------------
(* Model.save() of a new numbered row, step by step, for requests that run  *)
(* at the same time: Appointment.save, IssuedCertificate.save,              *)
(* Prescription.save and their number generators.                           *)

NumberKinds == {"ticket", "certificate", "prescription"}

PersistedNumbers(kind) ==
    IF kind = "ticket" THEN Numbers(appointments, "ticket_number")
    ELSE IF kind = "certificate"
    THEN Numbers(certificates, "certificate_number")
    ELSE Numbers(prescriptions, "prescription_number")

TableFull(kind) ==
    IF kind = "ticket" THEN Len(appointments) >= MaxAppt
    ELSE IF kind = "certificate" THEN Len(certificates) >= MaxCert
    ELSE Len(prescriptions) >= MaxRx

\* A column without its uniqueness constraint.
UniqueViolation_unenforced(persisted, number) == FALSE

\* unique=True on the number column: the INSERT of a stored number fails.
UniqueViolation(persisted, number) == number \in persisted

\* save() of a row without a number: the generator is entered.
save_begin(p, kind, student) ==
    /\ creators[p].pc = "idle"
    /\ creators' = [creators EXCEPT ![p] =
           [pc |-> "draw", kind |-> kind, number |-> NULL,
            student |-> student]]
    /\ UNCHANGED <<now, appointments, requests, profiles, notifications,
                   emailLogs, prefs, response, certificates, prescriptions,
                   records, statistics, morbidities, sessions>>

\* random.choices(...): one draw of the generator.
generator_draw(p, draw) ==
    /\ creators[p].pc = "draw"
    /\ creators' = [creators EXCEPT ![p].number = draw, ![p].pc = "check"]
    /\ UNCHANGED <<now, appointments, requests, profiles, notifications,
                   emailLogs, prefs, response, certificates, prescriptions,
                   records, statistics, morbidities, sessions>>

\* while Model.objects.filter(number=...).exists(): draw again, else return.
generator_check(p) ==
    /\ creators[p].pc = "check"
    /\ creators' = [creators EXCEPT ![p].pc =
           IF generate_number(PersistedNumbers(creators[p].kind),
                              creators[p].number) = NULL
           THEN "draw" ELSE "insert"]
    /\ UNCHANGED <<now, appointments, requests, profiles, notifications,
                   emailLogs, prefs, response, certificates, prescriptions,
                   records, statistics, morbidities, sessions>>

\* super().save(): the INSERT, which the uniqueness constraint may refuse.
save_insert(p) ==
    LET c == creators[p]
    IN  /\ c.pc = "insert"
        /\ IF UniqueViolation(PersistedNumbers(c.kind), c.number)
           THEN /\ creators' = [creators EXCEPT ![p].pc = "integrity_error"]
                /\ response' = Resp("IntegrityError", 0)
                /\ UNCHANGED <<appointments, certificates, prescriptions,
                   records, statistics, morbidities, sessions>>
           ELSE /\ ~TableFull(c.kind)
                /\ creators' = [creators EXCEPT ![p].pc = "saved"]
                /\ response' = Resp("saved", 0)
                /\ appointments' =
                      IF c.kind = "ticket"
                      THEN Append(appointments,
                                  NewAppointment(c.student, now + 1, c.number))
                      ELSE appointments
                /\ certificates' =
                      IF c.kind = "certificate"
                      THEN Append(certificates,
                                  NewCertificate(c.student, NULL, c.number))
                      ELSE certificates
                /\ prescriptions' =
                      IF c.kind = "prescription"
                      THEN Append(prescriptions,
                                  NewPrescription(c.student, c.number))
                      ELSE prescriptions
        /\ UNCHANGED <<now, requests, profiles, notifications, emailLogs,
                       prefs,
                   records, statistics, morbidities, sessions>>

\* The request is over: answered, or failed with the error.
request_end(p) ==
    /\ creators[p].pc \in {"saved", "integrity_error"}
    /\ creators' = [creators EXCEPT ![p] = Idle]
    /\ UNCHANGED <<now, appointments, requests, profiles, notifications,
                   emailLogs, prefs, response, certificates, prescriptions,
                   records, statistics, morbidities, sessions>>

----------------------------------------------------------------------------
(* students/models.py MedicalRecord, doctors/views.py create_medical_record, *)
(* analytics/services.py                                                     *)

NewMedicalRecord(student, doctor, record_type, visit_date, diagnosis, t) ==
    [student |-> student, doctor |-> doctor, record_type |-> record_type,
     visit_date |-> visit_date, diagnosis |-> diagnosis,
     status |-> "approved", approved_by |-> doctor, approved_at |-> t]

\* doctors/views.py create_medical_record (POST of a valid form).  The record
\* is saved; the answer is then built as redirect(...) + str, which raises.
create_medical_record(student, user, record_type, visit_date, diagnosis) ==
    /\ Len(records) < MaxRec
    /\ records' = Append(records,
                         NewMedicalRecord(student, user, record_type,
                                          visit_date, diagnosis, now))
    /\ response' = Resp("TypeError", 0)
    /\ UNCHANGED <<now, appointments, requests, profiles, notifications,
                   emailLogs, prefs, certificates, prescriptions, creators,
                   statistics, morbidities, sessions>>

\* round(n / d, 0) as Python rounds: to the nearest integer, a tie to the
\* even one.
RoundHalfEven(n, d) ==
    LET q == n \div d
        r == n % d
    IN  IF 2 * r < d THEN q
        ELSE IF 2 * r > d THEN q + 1
        ELSE IF q % 2 = 0 THEN q ELSE q + 1

\* round(count / total * 100, 2), in hundredths of a percent; 0 when the
\* total is 0.
Percentage(count, total) ==
    IF total > 0 THEN RoundHalfEven(count * Percent * RoundScale, total)
    ELSE 0

\* The queryset of get_top_morbidities: the ids of the approved records of
\* the type with a diagnosis, in the window.
MorbidityQueryset(recs, record_type, date_from, date_to) ==
    {i \in 1..Len(recs) :
        /\ recs[i].status = "approved"
        /\ recs[i].record_type = record_type
        /\ recs[i].diagnosis \notin {"null", ""}
        /\ date_from # NULL => recs[i].visit_date >= date_from
        /\ date_to # NULL => recs[i].visit_date <= date_to}

\* Count('id') of one group of values('diagnosis')
DiagnosisCount(recs, qs, diagnosis) ==
    Cardinality({i \in qs : recs[i].diagnosis = diagnosis})

RECURSIVE TotalCases(_, _, _)
TotalCases(recs, qs, top) ==
    IF top = << >> THEN 0
    ELSE DiagnosisCount(recs, qs, Head(top)) + TotalCases(recs, qs, Tail(top))

\* .order_by('-total')[:limit]: the first limit groups by descending count;
\* the order among groups of equal count is the database's choice.
TopDiagnoses(recs, qs, limit) ==
    LET groups == {recs[i].diagnosis : i \in qs}
        k == IF Cardinality(groups) < limit THEN Cardinality(groups)
             ELSE limit
        total(g) == DiagnosisCount(recs, qs, g)
    IN  {top \in [1..k -> groups] :
            /\ \A i, j \in 1..k : i < j =>
                  top[i] # top[j] /\ total(top[i]) >= total(top[j])
            /\ \A g \in groups :
                  (\A i \in 1..k : top[i] # g) =>
                      \A i \in 1..k : total(top[i]) >= total(g)}

\* get_top_morbidities: the lists it can return
get_top_morbidities(recs, record_type, limit, date_from, date_to) ==
    LET qs == MorbidityQueryset(recs, record_type, date_from, date_to)
    IN  {[i \in 1..Len(top) |->
            [diagnosis |-> top[i],
             count |-> DiagnosisCount(recs, qs, top[i]),
             percentage |-> Percentage(DiagnosisCount(recs, qs, top[i]),
                                       TotalCases(recs, qs, top))]] :
         top \in TopDiagnoses(recs, qs, limit)}

\* One call of get_top_morbidities (doctors/views.py analytics_dashboard,
\* export_report)
top_morbidities(record_type, limit, date_from, date_to) ==
    /\ \E result \in get_top_morbidities(records, record_type, limit,
                                         date_from, date_to) :
          morbidities' = [called |-> TRUE, record_type |-> record_type,
                          limit |-> limit, date_from |-> date_from,
                          date_to |-> date_to, result |-> result]
    /\ UNCHANGED <<now, appointments, requests, profiles, notifications,
                   emailLogs, prefs, response, certificates, prescriptions,
                   creators, records, statistics, sessions>>

\* get_consultation_statistics: the counts of the window.  The counts of
\* certificates, prescriptions and new students are computed the same way
\* from tables whose dates are not kept here.
get_consultation_statistics(recs, appts, date_from, date_to) ==
    LET consultations(record_type) ==
            Cardinality({i \in 1..Len(recs) :
                /\ recs[i].visit_date >= date_from
                /\ recs[i].visit_date <= date_to
                /\ recs[i].record_type = record_type
                /\ recs[i].status = "approved"})
        window == {i \in 1..Len(appts) :
                     /\ appts[i].preferred_date >= date_from
                     /\ appts[i].preferred_date <= date_to}
        with(status) == Cardinality({i \in window : appts[i].status = status})
    IN  [total_consultations |->
             consultations("medical") + consultations("dental"),
         medical_consultations |-> consultations("medical"),
         dental_consultations |-> consultations("dental"),
         total_appointments |-> Cardinality(window),
         completed_appointments |-> with("completed"),
         cancelled_appointments |-> with("cancelled"),
         no_show_appointments |-> with("no_show")]

\* The last day of the month of a date, months being DaysPerMonth days long
\* and day 0 the first of a month.
MonthEnd(date) == date - (date % DaysPerMonth) + DaysPerMonth - 1

\* A variant of update_or_create that always inserts.
update_or_create_insert(rows, period_type, period_start, defaults, t) ==
    Append(rows, [period_type |-> period_type, period_start |-> period_start,
                  generated_at |-> t, values |-> defaults])

\* ConsultationStatistic.objects.update_or_create(period_type, period_start,
\* defaults): the table afterwards
update_or_create(rows, period_type, period_start, defaults, t) ==
    LET found == {i \in 1..Len(rows) :
                     /\ rows[i].period_type = period_type
                     /\ rows[i].period_start = period_start}
    IN  IF found = {}
        THEN Append(rows, [period_type |-> period_type,
                           period_start |-> period_start,
                           generated_at |-> t, values |-> defaults])
        ELSE [i \in 1..Len(rows) |->
                 IF i \in found THEN [rows[i] EXCEPT !.values = defaults]
                 ELSE rows[i]]

\* What generate_consultation_statistics stores for the period: period_end
\* and the counts.
StatisticDefaults(period_type, period_start, period_end) ==
    LET pend == IF period_end # NULL THEN period_end
                ELSE IF period_type = "monthly" THEN MonthEnd(period_start)
                ELSE now
    IN  [period_end |-> pend,
         stats |-> get_consultation_statistics(records, appointments,
                                               period_start, pend)]

\* analytics/services.py generate_consultation_statistics, as the command
\* generate_statistics calls it
generate_consultation_statistics(period_type, period_start, period_end) ==
    /\ statistics' = update_or_create(statistics, period_type, period_start,
           StatisticDefaults(period_type, period_start, period_end), now)
    /\ Len(statistics') <= MaxStat
    /\ response' = Resp("Statistics generation completed!", 0)
    /\ UNCHANGED <<now, appointments, requests, profiles, notifications,
                   emailLogs, prefs, certificates, prescriptions, creators,
                   records, morbidities, sessions>>

----------------------------------------------------------------------------
(* accounts/decorators.py, accounts/models.py: who may call a doctor-portal  *)
(* view                                                                      *)

\* request.user of a request without a session; users whose is_superuser flag
\* is set (here on an account whose role is student).
Anonymous == "anonymous"
Superusers == {"x1"}
Requesters == {Anonymous, "s1", "d1", "a1"} \cup Superusers

is_authenticated(user) == user # Anonymous
is_superuser(user) == user \in Superusers

\* User.role
Role(user) ==
    IF user \in Students \cup Superusers THEN "student"
    ELSE IF user \in Doctors THEN "doctor"
    ELSE IF user \in Admins THEN "admin"
    ELSE "none"

\* redirect(target): nothing is written
Redirect(target) ==
    /\ response' = Resp(target, 0)
    /\ UNCHANGED <<now, appointments, requests, profiles, notifications,
                   emailLogs, prefs, certificates, prescriptions, creators,
                   records, statistics, morbidities, sessions>>

\* django.contrib.auth.decorators.login_required with settings.LOGIN_URL
login_required(user, view) ==
    IF ~is_authenticated(user) THEN Redirect("/accounts/login/") ELSE view

\* A variant of role_required that only asks for a logged-in user.
role_required_any_role(user, roles, view) ==
    IF ~is_authenticated(user) THEN Redirect("accounts:login") ELSE view

\* accounts/decorators.py role_required(*roles)
role_required(user, roles, view) ==
    IF ~is_authenticated(user) THEN Redirect("accounts:login")
    ELSE IF Role(user) \notin roles /\ ~is_superuser(user)
    THEN IF Role(user) = "student" THEN Redirect("students:dashboard")
         ELSE IF Role(user) = "doctor" THEN Redirect("doctors:dashboard")
         ELSE Redirect("home")
    ELSE view

\* accounts/decorators.py doctor_required
doctor_required(user, view) == role_required(user, {"doctor", "admin"}, view)

\* @login_required @doctor_required def view(request, ...)
doctors_view(user, view) == login_required(user, doctor_required(user, view))

----------------------------------------------------------------------------
(* doctors/views.py: the review views step by step, for requests that are    *)
(* handled at the same time.  A view reads its row (get_object_or_404),      *)
(* checks it, and later writes the instance it read, changed, back with      *)
(* Model.save().                                                             *)

AppointmentViews == {"approve_appointment", "cancel_appointment"}
RequestViews == {"approve_update_request", "decline_update_request"}

\* A variant of Model.save() that refuses an instance that is no longer what
\* is stored.
save_conflict_checked(loaded, stored) == loaded # stored

\* Model.save() of a loaded instance: an UPDATE of every column by primary
\* key; nothing compares the instance with the stored row.
save_conflict(loaded, stored) == FALSE

\* The row the view reads.
ViewRow(view, id) ==
    IF view \in AppointmentViews THEN appointments[id] ELSE requests[id]

\* The view's check of the row it has read.
ViewAccepts(view, row) ==
    IF view = "approve_appointment" THEN TRUE
    ELSE IF view = "cancel_appointment"
    THEN row.status \in {"pending", "approved"}
    ELSE row.status = "pending"

\* get_object_or_404 and the status check of the view
view_load(p, view, id, user) ==
    /\ sessions[p].pc = "idle"
    /\ IF ~Exists(IF view \in AppointmentViews THEN appointments
                  ELSE requests, id)
       THEN NotFound
       ELSE IF ~ViewAccepts(view, ViewRow(view, id))
       THEN Rejected(IF view \in AppointmentViews
                     THEN "This appointment cannot be cancelled."
                     ELSE "This request has already been processed.")
       ELSE /\ sessions' = [sessions EXCEPT ![p] =
                   [pc |-> "loaded", view |-> view, id |-> id, user |-> user,
                    loaded |-> ViewRow(view, id), message |-> ""]]
            /\ UNCHANGED <<now, appointments, requests, profiles,
                           notifications, emailLogs, prefs, response,
                           certificates, prescriptions, creators, records,
                           statistics, morbidities>>

\* The view answers without having written.
view_refused(p) ==
    /\ sessions' = [sessions EXCEPT ![p].pc = "done",
                                    ![p].message = "conflict"]
    /\ response' = Resp("conflict", 0)
    /\ UNCHANGED <<now, appointments, requests, profiles, notifications,
                   emailLogs, prefs, certificates, prescriptions, creators,
                   records, statistics, morbidities>>

view_done(p, message) ==
    /\ sessions' = [sessions EXCEPT ![p].pc = "done", ![p].message = message]
    /\ response' = Resp(message, 0)

\* approve_appointment from appointment.approve(...) on
appointment_approve_save(p, outcome) ==
    LET s == sessions[p]
        a == Appointment_approve(s.loaded, s.user, now)
        n == notify_appointment_approved(prefs, notifications, emailLogs, a,
                                         s.id, outcome)
    IN  /\ appointments' = [appointments EXCEPT ![s.id] = a]
        /\ prefs' = n.prefs
        /\ notifications' = n.notifications
        /\ emailLogs' = n.emailLogs
        /\ view_done(p, "Appointment approved successfully.")
        /\ UNCHANGED <<now, requests, profiles, certificates, prescriptions,
                       creators, records, statistics, morbidities>>

\* cancel_appointment from appointment.cancel(...) on
appointment_cancel_save(p, reason) ==
    LET s == sessions[p]
        a == Appointment_cancel(s.loaded, reason, s.user, now)
    IN  /\ appointments' = [appointments EXCEPT ![s.id] = a]
        /\ notifications' =
               notify_appointment_cancelled(notifications, a).notifications
        /\ view_done(p, "Appointment has been cancelled and student has been notified.")
        /\ UNCHANGED <<now, requests, profiles, emailLogs, prefs,
                       certificates, prescriptions, creators, records,
                       statistics, morbidities>>

\* approve_update_request from update_request.approve(...) on; the profile
\* is read through self.student when approve() reaches it
request_approve_save(p, outcome) ==
    LET s == sessions[p]
        done == RecordUpdateRequest_approve(s.loaded,
                    profiles[s.loaded.student], s.user, TRUE, now)
        n == notify_request_approved(prefs, notifications, emailLogs,
                                     done.request, s.id, outcome)
    IN  /\ requests' = [requests EXCEPT ![s.id] = done.request]
        /\ profiles' = [profiles EXCEPT ![s.loaded.student] = done.profile]
        /\ prefs' = n.prefs
        /\ notifications' = n.notifications
        /\ emailLogs' = n.emailLogs
        /\ view_done(p, "Update request approved and applied.")
        /\ UNCHANGED <<now, appointments, certificates, prescriptions,
                       creators, records, statistics, morbidities>>

\* decline_update_request from update_request.decline(...) on
request_decline_save(p, notes, outcome) ==
    LET s == sessions[p]
        done == RecordUpdateRequest_decline(s.loaded, s.user, notes, now)
        n == notify_request_declined(prefs, notifications, emailLogs, done,
                                     s.id, outcome)
    IN  /\ requests' = [requests EXCEPT ![s.id] = done]
        /\ prefs' = n.prefs
        /\ notifications' = n.notifications
        /\ emailLogs' = n.emailLogs
        /\ view_done(p, "Update request declined.")
        /\ UNCHANGED <<now, appointments, profiles, certificates,
                       prescriptions, creators, records, statistics,
                       morbidities>>

\* The rest of a view that has read and checked its row.
view_save(p, reason, notes, outcome) ==
    /\ sessions[p].pc = "loaded"
    /\ Len(notifications) < MaxViewNotif
    /\ Len(emailLogs) < MaxLog
    /\ IF save_conflict(sessions[p].loaded,
                        ViewRow(sessions[p].view, sessions[p].id))
       THEN view_refused(p)
       ELSE IF sessions[p].view = "approve_appointment"
       THEN appointment_approve_save(p, outcome)
       ELSE IF sessions[p].view = "cancel_appointment"
       THEN appointment_cancel_save(p, reason)
       ELSE IF sessions[p].view = "approve_update_request"
       THEN request_approve_save(p, outcome)
       ELSE request_decline_save(p, notes, outcome)

\* The response has been sent.
view_end(p) ==
    /\ sessions[p].pc = "done"
    /\ sessions' = [sessions EXCEPT ![p] = NoSession]
    /\ UNCHANGED <<now, appointments, requests, profiles, notifications,
                   emailLogs, prefs, response, certificates, prescriptions,
                   creators, records, statistics, morbidities>>

----------------------------------------------------------------------------
(* Initial state and specifications *)

ProfileFields == {"contact_number", "address"}
Users == Students \cup Staff

Init ==
    /\ now = 0
    /\ appointments = << >>
    /\ requests = << >>
    /\ profiles = [s \in Students |-> [f \in ProfileFields |-> "v0"]]
    /\ notifications = << >>
    /\ emailLogs = << >>
    /\ prefs = [u \in Users |-> NoPreference]
    /\ response = Resp("", 0)
    /\ certificates = << >>
    /\ prescriptions = << >>
    /\ creators = [p \in Procs |-> Idle]
    /\ records = << >>
    /\ statistics = << >>
    /\ morbidities = NoCall
    /\ sessions = [p \in Procs |-> NoSession]

Selections(table) == SUBSET (1..Len(table)) \ {{}}
CancelReasons == {"r1"}
StudentReasons == {"Cancelled by student"}
BookingDates == {1}
DatetimeInputs == {NULL, 0, MaxTime + 1}

NextAppt ==
    \/ \E s \in Students, d \in BookingDates, tk \in NumberPool :
          student_appointments(s, d, tk)
    \/ \E id \in ApptIds, u \in Doctors, dt \in DatetimeInputs,
          o \in MailOutcomes : approve_appointment(id, u, dt, o)
    \/ \E id \in ApptIds : complete_appointment(id)
    \/ \E id \in ApptIds, u \in Doctors, r \in CancelReasons :
          doctors_cancel_appointment(id, u, r)
    \/ \E id \in ApptIds, s \in Students, r \in StudentReasons :
          students_cancel_appointment(id, s, r)
    \/ \E sel \in Selections(appointments), u \in Admins :
          approve_appointments(sel, u)
    \/ \E sel \in Selections(appointments) : complete_appointments(sel)
    \/ \E sel \in Selections(appointments) : cancel_appointments(sel)
    \/ \E id \in ApptIds : mark_no_show(id)

SpecAppt == Init /\ [][NextAppt]_vars

NewValues == {"v1"}
ReviewNotes == {"n1"}

NextReq ==
    \/ \E s \in Students, f \in ProfileFields, v \in NewValues :
          request_update(s, f, v)
    \/ \E id \in ReqIds, u \in Doctors, o \in MailOutcomes :
          approve_update_request(id, u, o)
    \/ \E id \in ReqIds, u \in Doctors, n \in ReviewNotes, o \in MailOutcomes :
          decline_update_request(id, u, n, o)
    \/ \E sel \in Selections(requests), u \in Admins : approve_requests(sel, u)
    \/ \E sel \in Selections(requests), u \in Admins : decline_requests(sel, u)
    \/ \E sel \in Selections(requests) : mark_expired(sel)
    \/ Tick

SpecReq == Init /\ [][NextReq]_vars

PreferenceInputs ==
    [email_appointment_approved : BOOLEAN,
     email_appointment_reminder : {TRUE},
     email_request_status : BOOLEAN,
     email_certificate_issued : {TRUE},
     email_system_notifications : {TRUE}]

\* One pending appointment and one pending update request are on file.
InitMail ==
    /\ now = 0
    /\ \E s \in Students, d \in BookingDates, tk \in NumberPool :
          appointments = <<NewAppointment(s, d, tk)>>
    /\ profiles = [s \in Students |-> [f \in ProfileFields |-> "v0"]]
    /\ \E s \in Students, f \in ProfileFields, v \in NewValues :
          requests = <<NewRequest(s, f, v, profiles[s], 0)>>
    /\ notifications = << >>
    /\ emailLogs = << >>
    /\ prefs = [u \in Users |-> NoPreference]
    /\ response = Resp("", 0)
    /\ certificates = << >>
    /\ prescriptions = << >>
    /\ creators = [p \in Procs |-> Idle]
    /\ records = << >>
    /\ statistics = << >>
    /\ morbidities = NoCall
    /\ sessions = [p \in Procs |-> NoSession]

NextMail ==
    \/ \E id \in ApptIds, u \in Doctors, dt \in DatetimeInputs,
          o \in MailOutcomes : approve_appointment(id, u, dt, o)
    \/ \E id \in ReqIds, u \in Doctors, o \in MailOutcomes :
          approve_update_request(id, u, o)
    \/ \E id \in ReqIds, u \in Doctors, n \in ReviewNotes, o \in MailOutcomes :
          decline_update_request(id, u, n, o)
    \/ \E s \in Students, fl \in PreferenceInputs :
          notification_preferences(s, fl)
    \/ \E sel \in Selections(emailLogs) : \E o \in [sel -> MailOutcomes] :
          retry_failed_emails(sel, o)

SpecMail == InitMail /\ [][NextMail]_vars

\* create_notification on its own: any caller, any type, any preferences.
NotificationTypes ==
    {"appointment_approved", "appointment_reminder", "request_approved",
     "request_declined", "certificate_issued", "system", "other"}

AllPreferenceInputs == [DOMAIN DefaultPreference -> BOOLEAN]

\* A call of create_notification(recipient, notification_type, ...,
\* send_email=send_email) by any caller.
create_notification_call(recipient, ntype, send_email, expires_in_days, outcome) ==
    /\ NotifRoom
    /\ LET n == create_notification(prefs, notifications, emailLogs, recipient,
                                    ntype, "normal", send_email, "null", NULL,
                                    expires_in_days, outcome)
       IN  /\ prefs' = n.prefs
           /\ notifications' = n.notifications
           /\ emailLogs' = n.emailLogs
    /\ response' = Resp("", 0)
    /\ UNCHANGED <<now, appointments, requests, profiles,
                   certificates, prescriptions, creators,
                   records, statistics, morbidities, sessions>>

\* The student who edits the preferences; the other one never opens the page.
PreferenceEditors == {"s1"}

NextGate ==
    \/ \E u \in PreferenceEditors, f \in AllPreferenceInputs :
          notification_preferences(u, f)
    \/ \E u \in Students, ty \in NotificationTypes, se \in BOOLEAN,
          o \in MailOutcomes :
          create_notification_call(u, ty, se, DefaultExpiresInDays, o)

SpecGate == Init /\ [][NextGate]_vars

\* The read state of notifications.
ExpiryInputs == {ReminderExpiresInDays, DefaultExpiresInDays}

NextRead ==
    \/ \E u \in Students, e \in ExpiryInputs :
          create_notification_call(u, "system", FALSE, e, "sent")
    \/ \E id \in 1..MaxNotif, u \in Students : mark_notification_read(id, u)
    \/ \E u \in Students : mark_all_read(u)
    \/ \E sel \in Selections(notifications) : mark_as_read(sel)
    \/ \E sel \in Selections(notifications) : mark_as_unread(sel)
    \/ send_reminders(<< >>)
    \/ Tick

SpecRead == Init /\ [][NextRead]_vars

\* The daily reminders.
ReminderDates == {t + 1 : t \in TimePoints \ {MaxTime}}

ReminderPreferenceInputs ==
    {[DefaultPreference EXCEPT !.email_appointment_reminder = b] :
        b \in BOOLEAN}

NextRemind ==
    \/ \E s \in Students, d \in ReminderDates, tk \in NumberPool :
          student_appointments(s, d, tk)
    \/ \E sel \in Selections(appointments), u \in Admins :
          approve_appointments(sel, u)
    \/ \E u \in Students, f \in ReminderPreferenceInputs :
          notification_preferences(u, f)
    \/ \E o \in [ReminderQueryset(appointments, now) -> MailOutcomes] :
          send_reminders(o)
    \/ Tick

SpecRemind == Init /\ [][NextRemind]_vars

\* Certificates: issuing, revocation and expiry.
ValidUntilInputs == {NULL} \cup (TimePoints \ {MaxTime})
RevokeReasons == {"r1"}
CertStudents == {"s1"}
CertOutcomes == {"sent"}

NextCert ==
    \/ \E s \in CertStudents, v \in ValidUntilInputs, k \in NumberPool,
          o \in CertOutcomes : generate_certificate(s, v, k, o)
    \/ \E s \in CertStudents, k \in NumberPool : generate_prescription(s, k)
    \/ \E sel \in Selections(certificates) : revoke_certificates(sel)
    \/ \E sel \in Selections(certificates) : check_expiry(sel)
    \/ \E id \in 1..MaxCert, r \in RevokeReasons : revoke(id, r)
    \/ Tick

SpecCert == Init /\ [][NextCert]_vars

\* Concurrent creation of numbered rows.
CreatorStep(p, draws) ==
    \/ \E k \in NumberKinds, s \in CertStudents : save_begin(p, k, s)
    \/ \E d \in draws : generator_draw(p, d)
    \/ generator_check(p)
    \/ save_insert(p)
    \/ request_end(p)

NextNumbers == \E p \in Procs : CreatorStep(p, NumberPool)

SpecNumbers == Init /\ [][NextNumbers]_vars

\* The same with the random source stubbed to one value; every request
\* that has started keeps running.
StubDraws == {1}

NextStub == \E p \in Procs : CreatorStep(p, StubDraws)

SpecStub ==
    /\ Init
    /\ [][NextStub]_vars
    /\ \A p \in Procs : WF_vars(CreatorStep(p, StubDraws))

\* Morbidity ranking: records are written and the ranking is asked for.
RecordTypes == {"medical", "dental"}
Diagnoses == {"Flu", "Cold"}
VisitDates == {0, 7}
Limits == {1, 2}
Windows == {<<NULL, NULL>>, <<7, NULL>>, <<NULL, 0>>}
RecordStudents == {"s1"}

NextMorbidity ==
    \/ \E s \in RecordStudents, u \in Doctors, rt \in RecordTypes,
          v \in VisitDates, d \in Diagnoses :
          create_medical_record(s, u, rt, v, d)
    \/ \E rt \in RecordTypes, l \in Limits, w \in Windows :
          top_morbidities(rt, l, w[1], w[2])

SpecMorbidity == Init /\ [][NextMorbidity]_vars

\* Periodic statistics: records are written, days pass and the statistics of
\* a period are generated again and again.
PeriodTypes == {"daily", "monthly"}
PeriodStarts == {0}
StatDiagnoses == {"Flu"}
StatVisitDates == {0}

NextStats ==
    \/ \E s \in RecordStudents, u \in Doctors, rt \in RecordTypes,
          v \in StatVisitDates, d \in StatDiagnoses :
          create_medical_record(s, u, rt, v, d)
    \/ \E pt \in PeriodTypes, ps \in PeriodStarts :
          generate_consultation_statistics(pt, ps, NULL)
    \/ Tick

SpecStats == Init /\ [][NextStats]_vars

\* Booking: students submit the booking form with any date while days pass.
BookingInputs == {1, 5, 6, 9, 12, 13}

NextBook ==
    \/ \E s \in Students, d \in BookingInputs, tk \in NumberPool :
          student_appointments(s, d, tk)
    \/ Tick

SpecBook == Init /\ [][NextBook]_vars

\* The doctor portal as any requester reaches it: one pending appointment
\* and one pending update request are on file.
PortalOutcomes == {"sent"}

approve_update_request_by(u) ==
    \E id \in ReqIds, o \in PortalOutcomes :
        doctors_view(u, approve_update_request(id, u, o))

decline_update_request_by(u) ==
    \E id \in ReqIds, n \in ReviewNotes, o \in PortalOutcomes :
        doctors_view(u, decline_update_request(id, u, n, o))

approve_appointment_by(u) ==
    \E id \in ApptIds, o \in PortalOutcomes :
        doctors_view(u, approve_appointment(id, u, NULL, o))

complete_appointment_by(u) ==
    \E id \in ApptIds : doctors_view(u, complete_appointment(id))

cancel_appointment_by(u) ==
    \E id \in ApptIds, r \in CancelReasons :
        doctors_view(u, doctors_cancel_appointment(id, u, r))

NextPortal ==
    \/ \E u \in Requesters : approve_update_request_by(u)
    \/ \E u \in Requesters : decline_update_request_by(u)
    \/ \E u \in Requesters : approve_appointment_by(u)
    \/ \E u \in Requesters : complete_appointment_by(u)
    \/ \E u \in Requesters : cancel_appointment_by(u)

SpecPortal == InitMail /\ [][NextPortal]_vars

\* Concurrent review: two requests to the review views of the doctor portal
\* are in progress at once; one pending appointment and one pending update
\* request are on file.
NextViews ==
    \/ \E p \in Procs, v \in AppointmentViews, id \in ApptIds, u \in Doctors :
          view_load(p, v, id, u)
    \/ \E p \in Procs, v \in RequestViews, id \in ReqIds, u \in Doctors :
          view_load(p, v, id, u)
    \/ \E p \in Procs, r \in CancelReasons, n \in ReviewNotes,
          o \in PortalOutcomes : view_save(p, r, n, o)
    \/ \E p \in Procs : view_end(p)

SpecViews == InitMail /\ [][NextViews]_vars

\* The update-request workflow with approve() called with either value of
\* apply_changes.
ProfileStudents == {"s1"}

NextProfile ==
    \/ \E st \in ProfileStudents, f \in ProfileFields, v \in NewValues :
          request_update(st, f, v)
    \/ \E id \in ReqIds, u \in Doctors, o \in PortalOutcomes :
          approve_update_request(id, u, o)
    \/ \E id \in ReqIds, u \in Doctors, ap \in BOOLEAN : approve(id, u, ap)
    \/ \E id \in ReqIds, u \in Doctors, n \in ReviewNotes,
          o \in PortalOutcomes : decline_update_request(id, u, n, o)
    \/ \E sel \in Selections(requests), u \in Admins : decline_requests(sel, u)
    \/ \E sel \in Selections(requests) : mark_expired(sel)
    \/ Tick

SpecProfile == Init /\ [][NextProfile]_vars

----------------------------------------------------------------------------
(* Appointment lifecycle: claims *)

ApproveRequestOf(id) ==
    \/ \E u \in Doctors, dt \in DatetimeInputs, o \in MailOutcomes :
          approve_appointment(id, u, dt, o)
    \/ \E sel \in Selections(appointments), u \in Admins :
          id \in sel /\ approve_appointments(sel, u)

CancelRequestOf(id) ==
    \/ \E u \in Doctors, r \in CancelReasons :
          doctors_cancel_appointment(id, u, r)
    \/ \E s \in Students, r \in StudentReasons :
          students_cancel_appointment(id, s, r)
    \/ \E sel \in Selections(appointments) :
          id \in sel /\ cancel_appointments(sel)

\* C1: an approve (doctor endpoint or admin bulk action) of an appointment
\* whose status is not pending is rejected: it leaves the status,
\* approved_by and approved_at of that appointment as they were.
C1_ApproveOnlyFromPending ==
    [][\A id \in 1..Len(appointments) :
          (ApproveRequestOf(id) /\ appointments[id].status # "pending")
          => /\ appointments'[id].status = appointments[id].status
             /\ appointments'[id].approved_by = appointments[id].approved_by
             /\ appointments'[id].approved_at = appointments[id].approved_at]_vars

\* C2: a cancel (doctor endpoint, student endpoint, admin bulk action) of an
\* appointment whose status is completed, cancelled or no_show changes no
\* field of it, and the two endpoints answer that it cannot be cancelled; a
\* cancel that changes the appointment starts from pending or approved.
C2_CancelOnlyFromPendingOrApproved ==
    [][\A id \in 1..Len(appointments) :
          CancelRequestOf(id)
          => /\ appointments[id].status \notin {"pending", "approved"}
                => appointments'[id] = appointments[id]
             /\ appointments'[id] # appointments[id]
                => /\ appointments[id].status \in {"pending", "approved"}
                   /\ appointments'[id].status = "cancelled"
             /\ ( /\ appointments[id].status \notin {"pending", "approved"}
                  /\ \/ \E u \in Doctors, r \in CancelReasons :
                           doctors_cancel_appointment(id, u, r)
                     \/ \E r \in StudentReasons :
                           students_cancel_appointment(
                               id, appointments[id].student, r) )
                => response'.message = "This appointment cannot be cancelled."
      ]_vars

\* A cancel was attempted on a closed appointment and refused.
C2_Witness ==
    /\ response.message = "This appointment cannot be cancelled."
    /\ \E id \in 1..Len(appointments) :
          appointments[id].status \in {"completed", "cancelled", "no_show"}

ValidTransitions ==
    {<<"pending", "approved">>, <<"approved", "completed">>,
     <<"pending", "cancelled">>, <<"approved", "cancelled">>,
     <<"approved", "no_show">>}

\* C3: every change of an appointment's status is pending->approved,
\* approved->completed, pending->cancelled, approved->cancelled or
\* approved->no_show.
C3_OnlyValidTransitions ==
    [][\A id \in 1..Len(appointments) :
          appointments'[id].status # appointments[id].status
          => <<appointments[id].status, appointments'[id].status>>
                \in ValidTransitions]_vars

----------------------------------------------------------------------------
(* Update-request workflow: claims *)

FinalStatuses == {"approved", "declined", "expired"}

\* The requests that leave pending for approved in this step.
NewlyApproved ==
    {id \in 1..Len(requests) :
        requests[id].status = "pending" /\ requests'[id].status = "approved"}

\* C4: a request whose status is approved, declined or expired keeps its
\* status, reviewed_by and reviewed_at in every later step, so the status
\* leaves pending at most once; and a profile field changes only in a step
\* in which a request naming it leaves pending for approved.
C4_ReviewedAtMostOnce ==
    [][/\ \A id \in 1..Len(requests) :
             requests[id].status \in FinalStatuses
             => /\ requests'[id].status = requests[id].status
                /\ requests'[id].reviewed_by = requests[id].reviewed_by
                /\ requests'[id].reviewed_at = requests[id].reviewed_at
       /\ \A s \in Students, f \in ProfileFields :
             profiles'[s][f] # profiles[s][f]
             => \E id \in NewlyApproved :
                   /\ requests[id].student = s
                   /\ requests[id].field_name = f]_vars

\* A doctor or an admin acted on a request that had already left pending.
C4_Witness ==
    /\ response.message = "This request has already been processed."
    /\ \E id \in 1..Len(requests) : requests[id].status \in FinalStatuses

C6_NoReviewPastDeadline ==
    [][\A id \in 1..Len(requests) :
          (requests[id].status = "pending" /\ now > requests[id].expiry_date)
          => requests'[id].status \notin {"approved", "declined"}]_vars

\* C7: is_expired() at time t is true exactly when t is later than
\* created_at + 7 days and the status is pending; for a request that has
\* left pending it is false at every time.
C7_IsExpiredIffPastDeadlineAndPending ==
    \A id \in 1..Len(requests) :
        \A t \in 0..(MaxTime + ExpiryDays + 1) :
            /\ is_expired(requests[id], t)
               <=> (t > requests[id].created_at + ExpiryDays
                    /\ requests[id].status = "pending")
            /\ requests[id].status \in FinalStatuses
               => ~is_expired(requests[id], t)

\* A request reviewed in time, looked at after its deadline.
C7_Witness ==
    \E id \in 1..Len(requests) :
        /\ requests[id].status \in {"approved", "declined"}
        /\ now > requests[id].created_at + ExpiryDays

PastDeadlinePending(req, t) ==
    t > req.expiry_date /\ req.status = "pending"

\* C8: the expiry check turns a request that is pending and past its expiry
\* date into expired and counts it (returns true); any other request it
\* leaves as it is and does not count (returns false); a second check right
\* after the first returns false and changes nothing.
C8_CheckAndMarkExpired ==
    [][\A sel \in Selections(requests) :
          mark_expired(sel)
          => /\ \A id \in sel :
                   /\ PastDeadlinePending(requests[id], now)
                      => requests'[id] = [requests[id] EXCEPT !.status = "expired"]
                   /\ ~PastDeadlinePending(requests[id], now)
                      => requests'[id] = requests[id]
                   /\ check_and_mark_expired(requests[id], now).ret
                      <=> PastDeadlinePending(requests[id], now)
                   /\ ~check_and_mark_expired(requests'[id], now').ret
                   /\ check_and_mark_expired(requests'[id], now').request
                         = requests'[id]
             /\ \A id \in (1..Len(requests)) \ sel : requests'[id] = requests[id]
             /\ response'.count =
                   Cardinality({id \in sel :
                                   PastDeadlinePending(requests[id], now)})
             /\ profiles' = profiles]_vars

\* The check has just expired a request, and has left another one alone.
C8_Witness ==
    /\ response.message = "request(s) marked as expired."
    /\ response.count = 1
    /\ \E id \in 1..Len(requests) : requests[id].status = "expired"
    /\ \E id \in 1..Len(requests) : requests[id].status # "expired"

----------------------------------------------------------------------------
(* Email dispatch: claims *)

\* C9: a failed retry of an EmailLog adds one to the retry_count of that
\* EmailLog, which stays within max_retries.
C9_FailedRetryIncrementsItsLog ==
    [][\A sel \in Selections(emailLogs) : \A o \in [sel -> MailOutcomes] :
          retry_failed_emails(sel, o)
          => \A i \in sel :
                (can_retry(emailLogs[i]) /\ o[i] = "transport_fail")
                => /\ emailLogs'[i].retry_count = emailLogs[i].retry_count + 1
                   /\ emailLogs'[i].retry_count <= emailLogs'[i].max_retries
      ]_vars

\* Whether create_notification goes on to send the email of this type.
WantsEmail(user, ntype) ==
    GatedSendEmail(get_or_create(prefs, user)[user].flags, ntype, TRUE)

\* What a step that creates a notification and fails to mail it leaves: the
\* notification stored with email_sent false, one new EmailLog that is
\* failed, carries the error and has retry_count 1, the older rows as they
\* were, and false as the value of send_notification_email.
FailedDispatch(ntype) ==
    LET n == Len(notifications) + 1
        l == Len(emailLogs) + 1
    IN  /\ Len(notifications') = n
        /\ SubSeq(notifications', 1, n - 1) = notifications
        /\ notifications'[n].notification_type = ntype
        /\ notifications'[n].send_email
        /\ ~notifications'[n].email_sent
        /\ Len(emailLogs') = l
        /\ SubSeq(emailLogs', 1, l - 1) = emailLogs
        /\ emailLogs'[l].notification = n
        /\ emailLogs'[l].status = "failed"
        /\ emailLogs'[l].error_message
        /\ emailLogs'[l].retry_count = 1
        /\ ~send_notification_email(notifications', emailLogs, n,
                                    "transport_fail").ret

\* C10: when the mail transport fails while a notification is sent, the
\* handler still answers with success, its workflow transition is stored,
\* the notification is stored with email_sent false, and exactly one
\* EmailLog is written for the attempt: failed, with the error and
\* retry_count incremented; in every step a failed attempt is logged that
\* way, only an attempt logged as sent marks its notification as sent, and
\* the bulk retry counts only the attempts that were sent.
C10_TransportFailureIsSwallowed ==
    [][/\ \A id \in 1..Len(appointments) :
             \A u \in Doctors, dt \in DatetimeInputs :
                ( /\ approve_appointment(id, u, dt, "transport_fail")
                  /\ ApprovalFormValid(dt)
                  /\ WantsEmail(appointments[id].student, "appointment_approved") )
                => /\ FailedDispatch("appointment_approved")
                   /\ appointments'[id].status = "approved"
                   /\ appointments'[id].approved_by = u
                   /\ response'.message = "Appointment approved successfully."
       /\ \A id \in 1..Len(requests) : \A u \in Doctors :
                ( /\ approve_update_request(id, u, "transport_fail")
                  /\ requests[id].status = "pending"
                  /\ WantsEmail(requests[id].student, "request_approved") )
                => /\ FailedDispatch("request_approved")
                   /\ requests'[id].status = "approved"
                   /\ profiles'[requests[id].student][requests[id].field_name]
                         = requests[id].new_value
                   /\ response'.message = "Update request approved and applied."
       /\ \A id \in 1..Len(requests) : \A u \in Doctors, n \in ReviewNotes :
                ( /\ decline_update_request(id, u, n, "transport_fail")
                  /\ requests[id].status = "pending"
                  /\ WantsEmail(requests[id].student, "request_declined") )
                => /\ FailedDispatch("request_declined")
                   /\ requests'[id].status = "declined"
                   /\ response'.message = "Update request declined."
       /\ \A l \in (Len(emailLogs) + 1)..Len(emailLogs') :
                emailLogs'[l].status = "failed"
                => /\ emailLogs'[l].error_message
                   /\ emailLogs'[l].retry_count = 1
       /\ \A n \in 1..Len(notifications) :
                notifications'[n].email_sent # notifications[n].email_sent
                => \E l \in (Len(emailLogs) + 1)..Len(emailLogs') :
                      /\ emailLogs'[l].notification = n
                      /\ emailLogs'[l].status = "sent"
       /\ response'.message = "email(s) retried successfully."
                => response'.count =
                      Cardinality({l \in (Len(emailLogs) + 1)..Len(emailLogs') :
                                      emailLogs'[l].status = "sent"})
      ]_vars

\* A workflow transition is stored next to the notification whose email
\* failed: the log is failed with one counted attempt, the email not sent.
C10_Witness ==
    \E l \in 1..Len(emailLogs) :
        LET log == emailLogs[l]
            n == notifications[log.notification]
        IN  /\ log.status = "failed"
            /\ log.error_message
            /\ log.retry_count = 1
            /\ n.send_email /\ ~n.email_sent
            /\ \/ /\ n.related_object_type = "Appointment"
                  /\ appointments[n.related_object_id].status = "approved"
               \/ /\ n.related_object_type = "RecordUpdateRequest"
                  /\ requests[n.related_object_id].status
                        \in {"approved", "declined"}

----------------------------------------------------------------------------
(* Appointment notifications: claims *)

\* The notifications a step adds.
NewNotifications ==
    {notifications'[n] : n \in (Len(notifications) + 1)..Len(notifications')}

\* The appointments a step moves into the given status.
Entering(status) ==
    {id \in 1..Len(appointments) :
        appointments[id].status # status /\ appointments'[id].status = status}

\* C11: every step that cancels an appointment stores a cancellation
\* notification (type appointment) addressed to the appointment's student.
C11_CancellationNotifiesStudent ==
    [][\A id \in Entering("cancelled") :
          \E n \in NewNotifications :
              /\ n.recipient = appointments[id].student
              /\ n.notification_type = "appointment"
      ]_vars

\* C12: when the cancellation notification raises, the doctor cancel
\* endpoint has still stored the cancellation (status, reason, cancelled_by,
\* cancelled_at) and answers with its success message.
C12_CancelSurvivesNotificationFailure ==
    [][\A id \in 1..Len(appointments) :
          \A u \in Doctors, r \in CancelReasons :
             ( /\ doctors_cancel_appointment(id, u, r)
               /\ IsCancellable(appointments[id])
               /\ notify_appointment_cancelled(notifications,
                                               appointments'[id]).raised )
             => /\ appointments'[id].status = "cancelled"
                /\ appointments'[id].cancellation_reason = r
                /\ appointments'[id].cancelled_by = u
                /\ appointments'[id].cancelled_at = now
                /\ response'.message =
                      "Appointment has been cancelled and student has been notified."
      ]_vars

\* A doctor's cancellation is on file, answered with success, and no
\* notification was stored for it.
C12_Witness ==
    /\ response.message =
          "Appointment has been cancelled and student has been notified."
    /\ \E id \in 1..Len(appointments) :
          /\ appointments[id].status = "cancelled"
          /\ appointments[id].cancelled_by \in Doctors
          /\ appointments[id].cancelled_at = now
    /\ \A n \in 1..Len(notifications) :
          notifications[n].notification_type # "appointment"

\* C13: every step that moves an appointment to approved stores exactly one
\* notification of type appointment_approved with priority high for that
\* appointment, addressed to its student.
C13_ApprovalNotifiesOnce ==
    [][\A id \in Entering("approved") :
          Cardinality({n \in (Len(notifications) + 1)..Len(notifications') :
                /\ notifications'[n].notification_type = "appointment_approved"
                /\ notifications'[n].priority = "high"
                /\ notifications'[n].recipient = appointments[id].student
                /\ notifications'[n].related_object_id = id}) = 1
      ]_vars

----------------------------------------------------------------------------
(* Preference gating: claims *)

\* The preference flag the specification pairs with each notification type.
PreferenceFlagOf ==
    [appointment_approved |-> "email_appointment_approved",
     appointment_reminder |-> "email_appointment_reminder",
     request_approved |-> "email_request_status",
     request_declined |-> "email_request_status",
     certificate_issued |-> "email_certificate_issued",
     system |-> "email_system_notifications"]

\* C14: create_notification with send_email true, for a type that has a
\* preference flag, stores the notification with send_email equal to the
\* recipient's flag and writes an EmailLog only if the flag is true; with
\* send_email false it writes no EmailLog; a recipient without a preference
\* record gets one with every flag enabled.
C14_EmailGatedByPreference ==
    [][\A u \in Students, ty \in NotificationTypes, se \in BOOLEAN,
          o \in MailOutcomes :
          create_notification_call(u, ty, se, DefaultExpiresInDays, o)
          => LET n == notifications'[Len(notifications')]
                 flag == IF prefs[u].exists
                         THEN prefs[u].flags[PreferenceFlagOf[ty]]
                         ELSE TRUE
                 logged == Len(emailLogs') > Len(emailLogs)
             IN  /\ Len(notifications') = Len(notifications) + 1
                 /\ n.recipient = u /\ n.notification_type = ty
                 /\ (se /\ ty \in DOMAIN PreferenceFlagOf)
                       => /\ n.send_email = flag
                          /\ logged => flag
                          /\ (flag /\ o # "render_fail") => logged
                 /\ ~se => (~n.send_email /\ emailLogs' = emailLogs)
                 /\ ~prefs[u].exists
                       => /\ prefs'[u].exists
                          /\ \A f \in DOMAIN prefs'[u].flags : prefs'[u].flags[f]
                 /\ prefs[u].exists => prefs' = prefs
      ]_vars

\* A certificate notification is stored without email for a student who
\* switched certificate emails off and kept the system emails on, and no
\* EmailLog was written.
C14_Witness ==
    /\ emailLogs = << >>
    /\ \E n \in 1..Len(notifications) :
          LET r == notifications[n].recipient
          IN  /\ notifications[n].notification_type = "certificate_issued"
              /\ ~notifications[n].send_email
              /\ prefs[r].exists
              /\ ~prefs[r].flags.email_certificate_issued
              /\ prefs[r].flags.email_system_notifications

----------------------------------------------------------------------------
(* Read state and reminders: claims *)

\* C15: every stored notification has read_at set exactly when is_read is
\* true.
C15_ReadAtIffIsRead ==
    \A n \in 1..Len(notifications) :
        (notifications[n].read_at # NULL) <=> notifications[n].is_read

\* The stored reminder notifications of an appointment.
RemindersOf(ns, id) ==
    {n \in 1..Len(ns) : /\ ns[n].notification_type = "appointment_reminder"
                        /\ ns[n].related_object_type = "Appointment"
                        /\ ns[n].related_object_id = id}

\* C16: no appointment ever has more than one reminder notification; a run
\* that adds a reminder for an appointment sets its reminder_sent; a
\* reminded appointment stays reminded and is not selected again; and the
\* job run again right after any step of a run emits nothing and returns 0.
C16_AtMostOneReminder ==
    [][/\ \A id \in 1..Len(appointments') :
             Cardinality(RemindersOf(notifications', id)) <= 1
       /\ \A id \in 1..Len(appointments) :
             /\ RemindersOf(notifications', id) # RemindersOf(notifications, id)
                   => (~appointments[id].reminder_sent
                       /\ appointments'[id].reminder_sent)
             /\ appointments[id].reminder_sent
                   => /\ appointments'[id].reminder_sent
                      /\ id \notin ReminderQueryset(appointments, now)
       /\ response'.message = "Reminder task completed!"
             => \A o \in [ReminderQueryset(appointments', now') -> MailOutcomes] :
                   LET again == send_appointment_reminders(appointments',
                                   prefs', notifications', emailLogs', now', o)
                   IN  /\ again.ret = 0
                       /\ again.notifications = notifications'
                       /\ again.appointments = appointments'
      ]_vars

\* An appointment dated tomorrow was reminded once, and the job run again
\* the same day returned 0.
C16_Witness ==
    /\ response.message = "Reminder task completed!"
    /\ response.count = 0
    /\ \E id \in 1..Len(appointments) :
          /\ appointments[id].reminder_sent
          /\ appointments[id].preferred_date = now + 1
          /\ Cardinality(RemindersOf(notifications, id)) = 1

\* C17: a run reminds every appointment of its queryset whose student has
\* the reminder preference on or has no stored preference record, and no
\* appointment whose student switched it off.
C17_RemindsUnlessDisabled ==
    [][\A o \in [ReminderQueryset(appointments, now) -> MailOutcomes] :
          send_reminders(o)
          => \A id \in ReminderQueryset(appointments, now) :
                LET student == appointments[id].student
                    disabled == /\ prefs[student].exists
                                /\ ~prefs[student].flags.email_appointment_reminder
                IN  (RemindersOf(notifications', id)
                        # RemindersOf(notifications, id)) <=> ~disabled
      ]_vars

----------------------------------------------------------------------------
(* Numbered rows and certificates: claims *)

\* No two rows of the table have the same value in the column.
UniqueColumn(table, column) ==
    \A i, j \in 1..Len(table) :
        table[i][column] = table[j][column] => i = j

\* C18: in every state, whatever the interleaving of the requests that
\* create rows, no two appointments share a ticket_number, no two
\* certificates a certificate_number, no two prescriptions a
\* prescription_number.
C18_NumbersUnique ==
    /\ UniqueColumn(appointments, "ticket_number")
    /\ UniqueColumn(certificates, "certificate_number")
    /\ UniqueColumn(prescriptions, "prescription_number")

\* Two requests drew the same number for the same table and both passed the
\* generator's check; one stored its row, the other was refused at the
\* write.
C18_Witness ==
    \E p, q \in Procs :
        /\ creators[p].pc = "integrity_error"
        /\ creators[q].pc = "saved"
        /\ creators[p].kind = creators[q].kind
        /\ creators[p].number = creators[q].number
        /\ creators[p].number \in PersistedNumbers(creators[p].kind)

\* C19: a request that has entered a number generator leaves it, with a
\* number to store, also when every draw returns the same value.
C19_GeneratorTerminates ==
    \A p \in Procs :
        (creators[p].pc = "draw") ~> (creators[p].pc = "insert")

\* C20: the status of a certificate changes only from active to expired
\* (valid_until has passed), from active to revoked or from expired to
\* revoked; a revoked certificate keeps its status and none becomes active.
C20_RevocationIrreversible ==
    [][\A id \in 1..Len(certificates) :
          LET old == certificates[id]
              new == certificates'[id]
          IN  /\ new.status # old.status
                    => /\ <<old.status, new.status>> \in
                             {<<"active", "expired">>, <<"active", "revoked">>,
                              <<"expired", "revoked">>}
                       /\ new.status = "expired"
                             => (old.valid_until # NULL /\ now > old.valid_until)
              /\ old.status = "revoked" => new.status = "revoked"
      ]_vars

\* A revoked certificate whose valid_until has passed: the expiry check was
\* run on it and changed nothing.
C20_Witness ==
    /\ Len(certificates) = 1
    /\ certificates[1].status = "revoked"
    /\ certificates[1].revocation_reason \in RevokeReasons
    /\ certificates[1].valid_until # NULL
    /\ now > certificates[1].valid_until
    /\ response = Resp("certificate(s) marked as expired.", 0)

----------------------------------------------------------------------------
(* Analytics: claims *)

\* The number of records of the window that get_top_morbidities counts.
WindowTotal ==
    Cardinality(MorbidityQueryset(records, morbidities'.record_type,
                                  morbidities'.date_from,
                                  morbidities'.date_to))

\* C21: a call of get_top_morbidities returns at most limit entries, one per
\* distinct diagnosis of the approved records of the type in the window, by
\* descending count, each with its count and with percentage = count / the
\* number of such records in the whole window * 100.
C21_TopMorbidities ==
    [][\A rt \in RecordTypes, l \in Limits, w \in Windows :
          top_morbidities(rt, l, w[1], w[2]) =>
              LET result == morbidities'.result
                  qs == MorbidityQueryset(records, rt, w[1], w[2])
              IN  /\ Len(result) <= l
                  /\ \A i, j \in 1..Len(result) : i < j =>
                        /\ result[i].diagnosis # result[j].diagnosis
                        /\ result[i].count >= result[j].count
                  /\ \A i \in 1..Len(result) :
                        /\ result[i].count > 0
                        /\ result[i].count =
                              DiagnosisCount(records, qs, result[i].diagnosis)
                        /\ result[i].percentage =
                              Percentage(result[i].count, WindowTotal)
      ]_vars

\* The rows of the statistics table stored for a period.
StatisticsOf(rows, period_type, period_start) ==
    {i \in 1..Len(rows) : /\ rows[i].period_type = period_type
                          /\ rows[i].period_start = period_start}

\* C22: after any call of generate_consultation_statistics for a period,
\* exactly one row exists for (period_type, period_start), and its values are
\* those this call computed; no period ever has two rows.
C22_StatisticsUpsert ==
    [][/\ \A pt \in PeriodTypes, ps \in PeriodStarts :
             generate_consultation_statistics(pt, ps, NULL) =>
                 \E i \in 1..Len(statistics') :
                     /\ StatisticsOf(statistics', pt, ps) = {i}
                     /\ statistics'[i].values = StatisticDefaults(pt, ps, NULL)
       /\ \A i, j \in 1..Len(statistics') :
             (/\ statistics'[i].period_type = statistics'[j].period_type
              /\ statistics'[i].period_start = statistics'[j].period_start)
                 => i = j
      ]_vars

\* A period's row was written on one day and overwritten on a later day with
\* other counts.
C22_Witness ==
    \E i \in 1..Len(statistics) :
        /\ statistics[i].period_type = "daily"
        /\ statistics[i].generated_at < statistics[i].values.period_end
        /\ statistics[i].values.stats.total_consultations > 0
        /\ response = Resp("Statistics generation completed!", 0)

----------------------------------------------------------------------------
(* Booking, access and ownership: claims *)

IsWeekend(date) == Weekday(date) \in {Saturday, Saturday + 1}

\* C23: a booking whose preferred_date is before today or on a Saturday or
\* Sunday stores no appointment; an accepted booking stores exactly one
\* appointment, pending and with a ticket number, and creates no
\* notification.
C23_BookingValidation ==
    [][\A s \in Students, d \in BookingInputs, tk \in NumberPool :
          student_appointments(s, d, tk) =>
              /\ notifications' = notifications
              /\ emailLogs' = emailLogs
              /\ IF d < now \/ IsWeekend(d)
                 THEN appointments' = appointments
                 ELSE /\ Len(appointments') = Len(appointments) + 1
                      /\ SubSeq(appointments', 1, Len(appointments))
                            = appointments
                      /\ LET a == appointments'[Len(appointments')]
                         IN  /\ a.status = "pending"
                             /\ a.student = s
                             /\ a.preferred_date = d
                             /\ a.ticket_number # NULL
      ]_vars

\* One booking was accepted and a later one, for a coming Saturday or Sunday,
\* was rejected on the same day.
C23_Witness ==
    /\ now = 0
    /\ Len(appointments) = 1
    /\ appointments[1].status = "pending"
    /\ response = Resp("Please correct the errors below.", 0)

\* A request of the user to one of the five workflow endpoints of the doctor
\* portal.
WorkflowRequestBy(u) ==
    \/ approve_update_request_by(u)
    \/ decline_update_request_by(u)
    \/ approve_appointment_by(u)
    \/ complete_appointment_by(u)
    \/ cancel_appointment_by(u)

EntitiesUnchanged ==
    /\ appointments' = appointments
    /\ requests' = requests
    /\ profiles' = profiles
    /\ notifications' = notifications
    /\ emailLogs' = emailLogs

\* C24: a workflow request to the doctor portal by a requester who is not
\* logged in is redirected to the login page, one by a student is redirected
\* to the student dashboard, both without any change to an appointment, a
\* request or a profile; an entity changes only when the requester is logged
\* in and is a doctor, an admin or a superuser.
C24_RoleGate ==
    [][\A u \in Requesters :
          WorkflowRequestBy(u) =>
              /\ ~is_authenticated(u) =>
                    /\ response' = Resp("/accounts/login/", 0)
                    /\ EntitiesUnchanged
              /\ (is_authenticated(u) /\ Role(u) = "student"
                                      /\ ~is_superuser(u)) =>
                    /\ response' = Resp("students:dashboard", 0)
                    /\ EntitiesUnchanged
              /\ ~EntitiesUnchanged =>
                    /\ is_authenticated(u)
                    /\ Role(u) \in {"doctor", "admin"} \/ is_superuser(u)
      ]_vars

\* A student was sent to the student dashboard while the appointment and the
\* request on file were still pending.
C24_Witness ==
    /\ response = Resp("students:dashboard", 0)
    /\ appointments[1].status = "pending"
    /\ requests[1].status = "pending"

----------------------------------------------------------------------------
(* Concurrent review: claims *)

SuccessMessages ==
    {"Appointment approved successfully.",
     "Appointment has been cancelled and student has been notified.",
     "Update request approved and applied.",
     "Update request declined."}

\* C25: approve and cancel requests for one appointment are not serialized:
\* whenever a view that has loaded the appointment goes on, it stores its own
\* status over whatever is stored by then and reports success.
C25_ApproveCancelNotSerialized ==
    [][\A p \in Procs, r \in CancelReasons, n \in ReviewNotes,
          o \in PortalOutcomes :
          (view_save(p, r, n, o) /\ sessions[p].view \in AppointmentViews) =>
              /\ appointments'[sessions[p].id].status =
                    IF sessions[p].view = "approve_appointment"
                    THEN "approved" ELSE "cancelled"
              /\ sessions'[p].message \in SuccessMessages
              /\ sessions[p].view = "approve_appointment" =>
                    Len(notifications') = Len(notifications) + 1
      ]_vars

\* An approve and a cancel request both loaded the appointment as pending,
\* both stored their change and both reported success; an approval
\* notification exists and the stored status is cancelled.
C25_Witness ==
    \E p, q \in Procs :
        /\ sessions[p].pc = "done" /\ sessions[q].pc = "done"
        /\ sessions[p].view = "approve_appointment"
        /\ sessions[q].view = "cancel_appointment"
        /\ sessions[p].id = sessions[q].id
        /\ sessions[p].loaded.status = "pending"
        /\ sessions[q].loaded.status = "pending"
        /\ sessions[p].message \in SuccessMessages
        /\ sessions[q].message \in SuccessMessages
        /\ appointments[sessions[p].id].status = "cancelled"
        /\ \E i \in 1..Len(notifications) :
              /\ notifications[i].notification_type = "appointment_approved"
              /\ notifications[i].related_object_id = sessions[p].id

\* The notifications of a type sent about an update request.
RequestNotifications(id, ntype) ==
    {i \in 1..Len(notifications) :
        /\ notifications[i].notification_type = ntype
        /\ notifications[i].related_object_type = "RecordUpdateRequest"
        /\ notifications[i].related_object_id = id}

\* C26: of an approve and a decline handled at the same time for one pending
\* update request exactly one takes effect: no request is stored as declined
\* while its new_value has been written to the profile, and no request has
\* both an approval and a decline notification.
C26_ExactlyOneReviewTakesEffect ==
    \A id \in 1..Len(requests) :
        /\ ~ /\ requests[id].status = "declined"
             /\ requests[id].new_value # requests[id].old_value
             /\ profiles[requests[id].student][requests[id].field_name]
                   = requests[id].new_value
        /\ ~ /\ RequestNotifications(id, "request_approved") # {}
             /\ RequestNotifications(id, "request_declined") # {}

----------------------------------------------------------------------------
(* Retry, timestamps and profile: claims *)

\* C28: the retry action sends nothing and writes no EmailLog for a
\* notification whose email has already been delivered (email_sent true).
C28_RetryNeverResendsDelivered ==
    [][response'.message = "email(s) retried successfully." =>
          \A l \in (Len(emailLogs) + 1)..Len(emailLogs') :
              ~notifications[emailLogs'[l].notification].email_sent
      ]_vars

\* C27: a student's cancel request that names an appointment of another
\* student is answered as not found and leaves every appointment as it was;
\* a student's cancel request changes only appointments of that student.
C27_StudentCancelsOwnOnly ==
    [][\A id \in ApptIds, st \in Students, r \in StudentReasons :
          students_cancel_appointment(id, st, r) =>
              /\ (Exists(appointments, id) /\ appointments[id].student # st)
                    => /\ response' = Resp("not_found", 0)
                       /\ appointments' = appointments
              /\ \A i \in 1..Len(appointments) :
                    appointments'[i] # appointments[i]
                        => appointments[i].student = st
      ]_vars

\* Every appointment id is on file, and a student's cancel request for
\* another student's pending appointment has just been answered not found.
C27_Witness ==
    /\ Len(appointments) = MaxAppt
    /\ response = Resp("not_found", 0)
    /\ \E i, j \in 1..Len(appointments) :
          /\ appointments[i].student # appointments[j].student
          /\ appointments[i].status = "pending"
          /\ appointments[i].cancelled_at = NULL

\* C29: status and timestamps of every appointment agree: pending has no
\* approved_at, completed_at or cancelled_at; approved has approved_at and
\* neither completed_at nor cancelled_at; completed has approved_at and
\* completed_at; cancelled has cancelled_at and no completed_at.
C29_StatusAndTimestampsAgree ==
    \A id \in 1..Len(appointments) :
        LET a == appointments[id] IN
        /\ a.status = "pending" =>
              /\ a.approved_at = NULL
              /\ a.completed_at = NULL
              /\ a.cancelled_at = NULL
        /\ a.status = "approved" =>
              /\ a.approved_at # NULL
              /\ a.completed_at = NULL
              /\ a.cancelled_at = NULL
        /\ a.status = "completed" =>
              /\ a.approved_at # NULL
              /\ a.completed_at # NULL
        /\ a.status = "cancelled" =>
              /\ a.cancelled_at # NULL
              /\ a.completed_at = NULL

\* C30: a decline, an expiry and an approve with apply_changes=false leave
\* every profile as it was; a profile changes only in an approve with
\* apply_changes=true, and then only for the student of the request.
C30_OnlyAppliedApproveChangesProfile ==
    [][/\ \A id \in ReqIds, u \in Doctors, n \in ReviewNotes,
             o \in PortalOutcomes :
             decline_update_request(id, u, n, o) => profiles' = profiles
       /\ \A sel \in Selections(requests), u \in Admins :
             decline_requests(sel, u) => profiles' = profiles
       /\ \A sel \in Selections(requests) :
             mark_expired(sel) => profiles' = profiles
       /\ \A id \in ReqIds, u \in Doctors :
             approve(id, u, FALSE) => profiles' = profiles
       /\ profiles' # profiles =>
             \E id \in 1..Len(requests), u \in Doctors :
                 /\ \/ approve(id, u, TRUE)
                    \/ \E o \in PortalOutcomes :
                          approve_update_request(id, u, o)
                 /\ \A st \in Students \ {requests[id].student} :
                       profiles'[st] = profiles[st]
      ]_vars

\* A request was approved with apply_changes=false: it is stored as approved
\* and the profile still holds the old value.
C30_Witness ==
    \E id \in 1..Len(requests) :
        LET r == requests[id] IN
        /\ r.status = "approved"
        /\ r.new_value # r.old_value
        /\ profiles[r.student][r.field_name] = r.old_value
        /\ \E j \in 1..Len(requests) : requests[j].status = "declined"

====
